---- MODULE Spec2Model ----
(***************************************************************************)
(* TextSculptor: the content-organization pipeline.                        *)
(*                                                                         *)
(* Spec models the request handlers of the server (upload, edit, delete,   *)
(* create and reorder of chunks) over the in-memory persistent store       *)
(* (MemStorage) and the vector store.  Every handler is one action; the    *)
(* external calls a handler awaits (chunking and embedding providers, the  *)
(* vector store, the graph database) may fail, and the action's parameters *)
(* choose which one does.  Of a chunk the model keeps its section, its     *)
(* content, its embedding, its order and its isEmbedded flag; titles, word *)
(* counts, file names, nextChunkId links, timestamps and the contents of   *)
(* the graph database are left out.                                        *)
(*                                                                         *)
(* SpecCluster models one call of KMeansClustering.cluster, step by step,  *)
(* for every input up to MaxVectors vectors and every k up to MaxK.        *)
(*                                                                         *)
(* SpecVectorStore models the calls of one vector store, the               *)
(* InMemoryVectorStore or a collection of the ChromaVectorStore.           *)
(* SpecChunker models one call of a chunker, the rule-based localChunkText *)
(* or the delegated chunkText.  SpecRoutes models the upload, edit and     *)
(* delete handlers of the clustering routes (server/routes.ts) over        *)
(* MemStorage and the InMemoryVectorStore.                                 *)
(***************************************************************************)
EXTENDS Integers, Sequences, FiniteSets, TLC

\* Number of requests served in one behaviour.
MaxRequests == 2

\* Number of failures of external calls in one behaviour.
MaxFailures == 1

\* Approx. chunk size of the rule-based chunker.
ChunkSize == 1000

\* Number of vectors given to cluster.
MaxVectors == 3

\* Largest number of clusters asked for.
MaxK == 3

\* KMeansClustering.maxIterations
maxIterations == 100

\* Number of ids the calls of a vector store may name.
MaxStoreIds == 2

\* Largest topK of a search.
MaxTopK == 2

\* Number of calls of a vector store in one behaviour.
MaxCalls == 3

\* Number of paragraphs of a text given to the rule-based chunker.
MaxParagraphs == 3

\* Number of chunks in a provider's answer to chunkText.
MaxChunks == 2

\* Number of requests served by the clustering routes in one behaviour.
MaxRouteRequests == 3

\* Number of chunks of the section the concurrent requests work on.
MaxSiblings == 3

VARIABLES books, chapters, sections, chunks, vectors, nextId, lastOp, requests, failures,
          km, vs, ck, up, rq, objs

vars == <<books, chapters, sections, chunks, vectors, nextId, lastOp, requests, failures, km, vs, ck,
          up, rq, objs>>

(***************************************************************************)
(* Values.                                                                 *)
(*                                                                         *)
(* A text is a sequence of paragraphs, the pieces between its blank lines. *)
(* A paragraph is known by a name; ParLen gives its length in characters   *)
(* and IsBlank tells whether it holds whitespace only.  The content of a   *)
(* chunk is the sequence of the paragraphs it holds; <<>> is the empty     *)
(* string.                                                                 *)
(***************************************************************************)
EmbeddingTypes == {"local", "openai"}

ParLen(p) == CASE p = "a" -> 600
               [] p = "b" -> 600
               [] p = "big" -> 1200
               [] p = "two" -> 46
               [] OTHER -> 1

IsBlank(p) == p = "sp"

EmptyString == <<>>

\* The file lists of an upload request: no file, a file of whitespace, a
\* file of two paragraphs that do not fit one chunk, and a file of one
\* oversized paragraph followed by a file of whitespace.
FileLists == {<<>>, <<<<"sp">>>>, <<<<"a", "b">>>>, <<<<"big">>, <<"sp">>>>}

\* The chunk lists the delegated structuring provider may answer with.
ProviderChunkLists == {<<>>, <<<<"a">>, <<"b">>>>}

\* The texts handed to the rule-based chunker: paragraphs between blank
\* lines.  "two" is the paragraph "Alpha talks about cats. Beta talks about
\* dogs.", of two sentences.
Texts == UNION {[1..n -> {"a", "big", "sp", "two"}] : n \in 0..MaxParagraphs}

\* The sentences text.match(/[^.!?]+[.!?]+/g) finds in a paragraph.
SentencesOf(p) == CASE p = "two" -> <<"two1", "two2">>
                    [] IsBlank(p) -> <<>>
                    [] OTHER -> <<p>>

\* The chunks of a provider's answer: with no content, with the empty
\* string as content, with a content.
ProviderChunks ==
  {[present |-> FALSE, content |-> <<>>],
   [present |-> TRUE, content |-> <<>>],
   [present |-> TRUE, content |-> <<"a">>]}

\* The answers to the request of chunkText: the request throws, the JSON has
\* no array of chunks, or it has one.
ProviderResponses ==
  {[kind |-> "throws", chunks |-> <<>>], [kind |-> "noArray", chunks |-> <<>>]}
    \cup {[kind |-> "array", chunks |-> list] :
            list \in UNION {[1..n -> ProviderChunks] : n \in 0..MaxChunks}}

\* The contents an edit request may carry.
EditContents == {EmptyString, <<"e">>}

\* No entity: ids are 1, 2, ...
NoId == 0

\* An embedding is known by the provider that made it and the text it was
\* made from; a chunk that was never embedded holds NullEmbedding.
NullEmbedding == [by |-> "none", of |-> EmptyString]

Embed(type, text) == [by |-> type, of |-> text]

\* `collection_${embeddingType}`
CollectionName(type) ==
  IF type = "local" THEN "collection_local" ELSE "collection_openai"

Collections == {CollectionName(type) : type \in EmbeddingTypes}

(***************************************************************************)
(* The persistent store: MemStorage.  A store value st is a record of the  *)
(* four maps, the vector store's collections and the next id.  Maps keep   *)
(* insertion order, which is the order of the ids.                         *)
(***************************************************************************)
Store == [books |-> books, chapters |-> chapters, sections |-> sections,
          chunks |-> chunks, vectors |-> vectors, nextId |-> nextId]

createBook(st, type) ==
  [st EXCEPT !.books = st.nextId :> [embeddingType |-> type] @@ st.books,
             !.nextId = st.nextId + 1]

createChapter(st, bookId, order) ==
  [st EXCEPT !.chapters = st.nextId :> [bookId |-> bookId, order |-> order] @@ st.chapters,
             !.nextId = st.nextId + 1]

createSection(st, chapterId, order) ==
  [st EXCEPT !.sections = st.nextId :> [chapterId |-> chapterId, order |-> order] @@ st.sections,
             !.nextId = st.nextId + 1]

createChunk(st, sectionId, content, embedding, order, isEmbedded) ==
  [st EXCEPT !.chunks = st.nextId :> [sectionId |-> sectionId, content |-> content,
                                      embedding |-> embedding, order |-> order,
                                      isEmbedded |-> isEmbedded] @@ st.chunks,
             !.nextId = st.nextId + 1]

\* a sorts before b: by order, and by insertion order among equal orders
\* (Array.prototype.sort is stable).
SortsBefore(ch, a, b) ==
  \/ ch[a].order < ch[b].order
  \/ ch[a].order = ch[b].order /\ a <= b

RECURSIVE SortByOrder(_, _)
SortByOrder(ch, S) ==
  IF S = {} THEN <<>>
  ELSE LET first == CHOOSE a \in S : \A b \in S : SortsBefore(ch, a, b)
       IN <<first>> \o SortByOrder(ch, S \ {first})

\* The ids of the section's chunks, sorted by order.
getChunksBySectionId(st, sectionId) ==
  SortByOrder(st.chunks, {c \in DOMAIN st.chunks : st.chunks[c].sectionId = sectionId})

getChaptersByBookId(st, bookId) ==
  SortByOrder(st.chapters, {c \in DOMAIN st.chapters : st.chapters[c].bookId = bookId})

getSectionsByChapterId(st, chapterId) ==
  SortByOrder(st.sections, {s \in DOMAIN st.sections : st.sections[s].chapterId = chapterId})

Range(s) == {s[i] : i \in DOMAIN s}

\* The ids of the chunks reached from the book's chapters and sections.
getAllChunksByBookId(st, bookId) ==
  {c \in DOMAIN st.chunks :
     \E s \in DOMAIN st.sections, h \in DOMAIN st.chapters :
        /\ st.chunks[c].sectionId = s
        /\ st.sections[s].chapterId = h
        /\ st.chapters[h].bookId = bookId}

\* Removes the book's chapters, and only them.
deleteChaptersByBookId(st, bookId) ==
  LET keep == {h \in DOMAIN st.chapters : st.chapters[h].bookId # bookId}
  IN [st EXCEPT !.chapters = [h \in keep |-> st.chapters[h]]]

updateChunk(st, id, updates) ==
  [st EXCEPT !.chunks[id] = updates @@ st.chunks[id]]

deleteChunk(st, id) ==
  [st EXCEPT !.chunks = [c \in DOMAIN st.chunks \ {id} |-> st.chunks[c]]]

\* The book that owns the chunk through its section and chapter, NoId when a
\* link of the chain is missing.
getBookFromChunk(st, id) ==
  LET s == st.chunks[id].sectionId
      h == IF s \in DOMAIN st.sections THEN st.sections[s].chapterId ELSE NoId
      b == IF h \in DOMAIN st.chapters THEN st.chapters[h].bookId ELSE NoId
  IN IF id \in DOMAIN st.chunks /\ b \in DOMAIN st.books THEN b ELSE NoId

(***************************************************************************)
(* ChromaVectorStore: one id -> vector map per collection.  A collection   *)
(* is there from its first use on.  The store hands its calls to the       *)
(* Chroma client: collection.add stores the records whose ids are new and  *)
(* passes over those whose ids the collection already holds                *)
(* (collection.upsert is the client's call that replaces), and             *)
(* collection.delete removes the record if there is one.                   *)
(***************************************************************************)
collectionAdd(collection, id, value) ==
  IF id \in DOMAIN collection THEN collection ELSE id :> value @@ collection

collectionDelete(collection, id) ==
  [v \in DOMAIN collection \ {id} |-> collection[v]]

vectorStoreAdd(st, collection, id, vector) ==
  [st EXCEPT !.vectors[collection] = collectionAdd(st.vectors[collection], id, vector)]

vectorStoreRemove(st, collection, id) ==
  [st EXCEPT !.vectors[collection] = collectionDelete(st.vectors[collection], id)]

(***************************************************************************)
(* The rule-based chunker.                                                 *)
(***************************************************************************)
\* text.length: the paragraphs and the blank lines between them.
RECURSIVE SumLen(_, _)
SumLen(ps, sep) ==
  IF ps = <<>> THEN 0 ELSE ParLen(Head(ps)) + sep + SumLen(Tail(ps), sep)

TextLength(text) == IF text = <<>> THEN 0 ELSE SumLen(text, 2) - 2

\* currentChunkContent.length: every paragraph is followed by "\n\n".
CurrentLength(current) == SumLen(current, 2)

\* The loop with a paragraph that does not fit dropped.
RECURSIVE AccumulateFitting(_, _, _)
AccumulateFitting(paragraphs, current, out) ==
  IF paragraphs = <<>> THEN [current |-> current, chunks |-> out]
  ELSE LET p == Head(paragraphs)
           full == CurrentLength(current) + ParLen(p) > ChunkSize
       IN AccumulateFitting(Tail(paragraphs),
                            IF full THEN <<>> ELSE current \o <<p>>,
                            IF full THEN Append(out, current) ELSE out)

\* The loop over the paragraphs: current is the content being accumulated,
\* out the chunks pushed so far.
RECURSIVE AccumulateParagraphs(_, _, _)
AccumulateParagraphs(paragraphs, current, out) ==
  IF paragraphs = <<>> THEN [current |-> current, chunks |-> out]
  ELSE LET p == Head(paragraphs)
           full == CurrentLength(current) + ParLen(p) > ChunkSize
       IN AccumulateParagraphs(Tail(paragraphs),
                               (IF full THEN <<>> ELSE current) \o <<p>>,
                               IF full THEN Append(out, current) ELSE out)

\* text.match(/[^.!?]+[.!?]+/g): the sentences of the text, in order.
RECURSIVE Match(_)
Match(text) ==
  IF text = <<>> THEN <<>> ELSE SentencesOf(Head(text)) \o Match(Tail(text))

\* The contents of the chunks of a text, in order.
localChunkContents(text) ==
  LET NotBlank(p) == ~IsBlank(p)
      paragraphs == SelectSeq(text, NotBlank)
      acc == AccumulateParagraphs(paragraphs, <<>>, <<>>)
      chunked == IF acc.current # <<>> THEN Append(acc.chunks, acc.current)
                 ELSE acc.chunks
      sentences == IF Match(text) = <<>> THEN <<paragraphs>>   \* [text], trimmed
                   ELSE [i \in 1..Len(Match(text)) |-> <<Match(text)[i]>>]
  IN IF chunked = <<>> /\ TextLength(text) > 0 THEN sentences ELSE chunked

\* Sequential titles: chunk i is titled "Chunk i".
localChunkText(text) ==
  LET contents == localChunkContents(text)
  IN [i \in 1..Len(contents) |-> [title |-> i, content |-> contents[i]]]

\* chunkText: the chunks of the provider's answer, or the error thrown.
chunkText(response) ==
  IF response.kind # "array" THEN [status |-> "error", chunks |-> <<>>]
  ELSE [status |-> "ok",
        chunks |-> [i \in 1..Len(response.chunks) |->
                      [title |-> 0,
                       content |-> IF response.chunks[i].present
                                   THEN response.chunks[i].content
                                   ELSE EmptyString]]]

\* file.content.trim() is empty.
IsBlankText(text) == \A i \in DOMAIN text : IsBlank(text[i])

(***************************************************************************)
(* POST /api/upload.                                                       *)
(*                                                                         *)
(* A failure point names the awaited call that throws: stage "remove" (the *)
(* vector store, for one of the old vectors at least; the removals run     *)
(* side by side, so the others may be done all the same), "title" (the     *)
(* structuring provider, on the first file), "graphinit", and for file i   *)
(* "chunk" (the structuring provider), "embed" (the embedding provider),   *)
(* "add" (the vector store, on chunk j) and "graph" (the graph database).  *)
(***************************************************************************)
NoFailure == [stage |-> "none", file |-> 0, chunk |-> 0]

FailAt(stage, file, chunk) == [stage |-> stage, file |-> file, chunk |-> chunk]

\* Step 5 of the per-file loop, from chunk j on: createChunk, then
\* vectorStore.add under the new chunk's id.
RECURSIVE StoreChunks(_, _, _, _, _, _)
StoreChunks(st, type, sectionId, contents, j, failAdd) ==
  IF j > Len(contents) THEN [st |-> st, ok |-> TRUE]
  ELSE LET embedding == Embed(type, contents[j])
           created == createChunk(st, sectionId, contents[j], embedding, j - 1, 1)
       IN IF failAdd = j THEN [st |-> created, ok |-> FALSE]
          ELSE StoreChunks(vectorStoreAdd(created, CollectionName(type), st.nextId, embedding),
                           type, sectionId, contents, j + 1, failAdd)

\* One round of the per-file loop: file i, whose chunks hold contents.
ProcessFile(st, bookId, type, i, contents, fail) ==
  LET withChapter == createChapter(st, bookId, i - 1)
      withSection == createSection(withChapter, st.nextId, 0)
      sectionId == withChapter.nextId
      here == fail.file = i
  IN IF here /\ fail.stage = "chunk" THEN [st |-> withSection, ok |-> FALSE]
     ELSE IF contents = <<>> THEN [st |-> withSection, ok |-> TRUE]
     ELSE IF here /\ fail.stage = "embed" THEN [st |-> withSection, ok |-> FALSE]
     ELSE LET stored == StoreChunks(withSection, type, sectionId, contents, 1,
                                    IF here /\ fail.stage = "add" THEN fail.chunk ELSE 0)
          IN IF stored.ok /\ here /\ fail.stage = "graph"
             THEN [st |-> stored.st, ok |-> FALSE]
             ELSE stored

RECURSIVE ProcessFiles(_, _, _, _, _, _)
ProcessFiles(st, bookId, type, chunked, i, fail) ==
  IF i > Len(chunked) THEN [st |-> st, ok |-> TRUE]
  ELSE LET one == ProcessFile(st, bookId, type, i, chunked[i], fail)
       IN IF one.ok THEN ProcessFiles(one.st, bookId, type, chunked, i + 1, fail)
          ELSE one

RECURSIVE RemoveVectors(_, _, _)
RemoveVectors(st, collection, ids) ==
  IF ids = {} THEN st
  ELSE LET id == CHOOSE x \in ids : TRUE
       IN RemoveVectors(vectorStoreRemove(st, collection, id), collection, ids \ {id})

\* The embedding type the upload works with.
TypeToUse(st, bookId, type) ==
  IF bookId \in DOMAIN st.books THEN st.books[bookId].embeddingType ELSE type

\* Promise.all over the removals of the old chunks' vectors: those in stuck
\* are the ones whose removal fails.
RemoveOldVectors(st, bookId, stuck) ==
  IF bookId = NoId THEN st
  ELSE RemoveVectors(st, CollectionName(st.books[bookId].embeddingType),
                     getAllChunksByBookId(st, bookId) \ stuck)

\* The existing-book branch: the old chunks' vectors are removed, then the
\* chapters.
DeleteOldStructure(st, bookId, stuck) ==
  IF bookId = NoId THEN st
  ELSE deleteChaptersByBookId(RemoveOldVectors(st, bookId, stuck), bookId)

\* The handler: the store it leaves and the status it answers with.
Upload(st, files, bookId, type, stuck, chunked, fail) ==
  IF files = <<>> THEN [st |-> st, status |-> 400]
  ELSE IF \A i \in DOMAIN files : IsBlankText(files[i]) THEN [st |-> st, status |-> 400]
  ELSE IF bookId # NoId /\ bookId \notin DOMAIN st.books THEN [st |-> st, status |-> 404]
  ELSE IF fail.stage = "remove"
       THEN [st |-> RemoveOldVectors(st, bookId, stuck), status |-> 500]
  ELSE LET typeToUse == TypeToUse(st, bookId, type)
           cleaned == DeleteOldStructure(st, bookId, stuck)
           withBook == createBook(cleaned, typeToUse)
       IN IF fail.stage = "title" THEN [st |-> cleaned, status |-> 500]
          ELSE IF fail.stage = "graphinit" THEN [st |-> withBook, status |-> 500]
          ELSE LET done == ProcessFiles(withBook, cleaned.nextId, typeToUse, chunked, 1, fail)
               IN [st |-> done.st, status |-> IF done.ok THEN 200 ELSE 500]

\* Whether the handler gets as far as chunking.
ReachesChunking(st, files, bookId, fail) ==
  /\ files # <<>>
  /\ \E i \in DOMAIN files : ~IsBlankText(files[i])
  /\ bookId = NoId \/ bookId \in DOMAIN st.books
  /\ fail.stage # "remove"

\* What chunking the files may give: the rule-based chunker's result, or one
\* of the structuring provider's answers for every file.
ChunkingResults(files, type) ==
  IF type = "local"
  THEN {[i \in DOMAIN files |-> [j \in DOMAIN localChunkText(files[i]) |->
                                    localChunkText(files[i])[j].content]]}
  ELSE [DOMAIN files -> ProviderChunkLists]

\* The calls of this run that can throw.
FailurePoints(removalFails, type, chunked) ==
  {NoFailure, FailAt("graphinit", 0, 0)}
  \cup (IF removalFails THEN {FailAt("remove", 0, 0)} ELSE {})
  \cup (IF type = "openai" THEN {FailAt("title", 0, 0)} ELSE {})
  \cup (IF type = "openai" THEN {FailAt("chunk", i, 0) : i \in DOMAIN chunked} ELSE {})
  \cup {FailAt("embed", i, 0) : i \in {k \in DOMAIN chunked : chunked[k] # <<>>}}
  \cup {FailAt("graph", i, 0) : i \in {k \in DOMAIN chunked : chunked[k] # <<>>}}
  \cup UNION {{FailAt("add", i, j) : j \in DOMAIN chunked[i]} : i \in DOMAIN chunked}

(***************************************************************************)
(* PATCH /api/chunks/:id with {content}.  fail names the awaited call that *)
(* throws: "embed" (the embedding provider), "add" (the vector store), or  *)
(* "none".                                                                 *)
(***************************************************************************)
\* updates.content && updates.content !== chunk.content
ContentChanged(chunk, content) == content # EmptyString /\ content # chunk.content

EditChunk(st, id, content, fail) ==
  IF id \notin DOMAIN st.chunks THEN [st |-> st, status |-> 404]
  ELSE IF ContentChanged(st.chunks[id], content)
  THEN LET book == getBookFromChunk(st, id)
           type == st.books[book].embeddingType
           newEmbedding == Embed(type, content)
           upserted == vectorStoreAdd(st, CollectionName(type), id, newEmbedding)
       IN IF book = NoId THEN [st |-> st, status |-> 404]
          ELSE IF fail # "none" THEN [st |-> st, status |-> 500]
          ELSE [st |-> updateChunk(upserted, id, [content |-> content,
                                                  embedding |-> newEmbedding,
                                                  isEmbedded |-> 1]),
                status |-> 200]
  ELSE [st |-> updateChunk(st, id, [content |-> content]), status |-> 200]

\* The calls of an edit that can throw.
EditFailures(st, id, content) ==
  IF /\ id \in DOMAIN st.chunks
     /\ ContentChanged(st.chunks[id], content)
     /\ getBookFromChunk(st, id) # NoId
  THEN {"none", "embed", "add"}
  ELSE {"none"}

(***************************************************************************)
(* DELETE /api/chunks/:id.  removal is what vectorStore.remove does:       *)
(* "removed", "false" (the deletion failed, which remove reports by        *)
(* returning false) or "throws" (the collection cannot be had).            *)
(***************************************************************************)
DeleteChunk(st, id, removal) ==
  IF id \notin DOMAIN st.chunks THEN [st |-> st, status |-> 404]
  ELSE LET book == getBookFromChunk(st, id)
           collection == CollectionName(st.books[book].embeddingType)
           afterRemove == IF book # NoId /\ removal = "removed"
                          THEN vectorStoreRemove(st, collection, id)
                          ELSE st
       IN IF book # NoId /\ removal = "throws" THEN [st |-> st, status |-> 500]
          ELSE [st |-> deleteChunk(afterRemove, id), status |-> 200]

Removals(st, id) ==
  IF id \in DOMAIN st.chunks /\ getBookFromChunk(st, id) # NoId
  THEN {"removed", "false", "throws"}
  ELSE {"removed"}

(***************************************************************************)
(* POST /api/sections/:id/chunks with {content, order}.                    *)
(***************************************************************************)
CreateChunk(st, sectionId, content, order) ==
  IF sectionId \notin DOMAIN st.sections THEN [st |-> st, status |-> 404]
  ELSE [st |-> createChunk(st, sectionId, content, NullEmbedding, order, 0),
        status |-> 200]

\* The order the client asks for: section.chunks.length.
ClientOrder(st, sectionId) == Len(getChunksBySectionId(st, sectionId))

(***************************************************************************)
(* POST /api/chunks/:id/reorder with {direction}.                          *)
(***************************************************************************)
IndexOf(seq, x) == CHOOSE i \in DOMAIN seq : seq[i] = x

SwapIndex(currentIndex, direction) ==
  IF direction = "up" THEN currentIndex - 1 ELSE currentIndex + 1

\* swapChunkOrder without its early return: a move past the end of the
\* section exchanges with the chunk at the other end.
swapChunkOrderWrapping(st, chunkId, direction) ==
  LET chunk == st.chunks[chunkId]
      siblings == getChunksBySectionId(st, chunk.sectionId)
      swapIndex == SwapIndex(IndexOf(siblings, chunkId), direction)
      otherChunk == siblings[IF swapIndex < 1 THEN Len(siblings)
                             ELSE IF swapIndex > Len(siblings) THEN 1
                             ELSE swapIndex]
  IN updateChunk(updateChunk(st, chunkId, [order |-> st.chunks[otherChunk].order]),
                 otherChunk, [order |-> chunk.order])

\* swapChunkOrder without its tempOrder: the other chunk is given the order
\* the moved chunk has after its own assignment.
swapChunkOrderNoTemp(st, chunkId, direction) ==
  LET chunk == st.chunks[chunkId]
      siblings == getChunksBySectionId(st, chunk.sectionId)
      swapIndex == SwapIndex(IndexOf(siblings, chunkId), direction)
      otherChunk == siblings[swapIndex]
  IN IF swapIndex < 1 \/ swapIndex > Len(siblings) THEN st
     ELSE updateChunk(st, chunkId, [order |-> st.chunks[otherChunk].order])

swapChunkOrder(st, chunkId, direction) ==
  LET chunk == st.chunks[chunkId]
      siblings == getChunksBySectionId(st, chunk.sectionId)
      swapIndex == SwapIndex(IndexOf(siblings, chunkId), direction)
      otherChunk == siblings[swapIndex]
  IN IF swapIndex < 1 \/ swapIndex > Len(siblings) THEN st
     ELSE updateChunk(updateChunk(st, chunkId, [order |-> st.chunks[otherChunk].order]),
                      otherChunk, [order |-> chunk.order])

ReorderChunk(st, id, direction) ==
  IF direction \notin {"up", "down"} THEN [st |-> st, status |-> 400]
  ELSE IF id \notin DOMAIN st.chunks THEN [st |-> st, status |-> 500]
  ELSE [st |-> swapChunkOrder(st, id, direction), status |-> 200]

(***************************************************************************)
(* KMeansClustering.                                                       *)
(*                                                                         *)
(* The input is a sequence of vectors with integer coordinates; the id of  *)
(* a vector is its position in the input.  A centroid is kept as the sum   *)
(* of the vectors it is the mean of and their number, and two distances    *)
(* are compared by their squares brought to a common denominator, so the   *)
(* comparison is the exact one.  Clusters are counted from 0 as in the     *)
(* source.                                                                 *)
(***************************************************************************)
Points == {<<0, 0>>, <<2, 0>>, <<0, 3>>}

VectorLists == UNION {[1..n -> Points] : n \in 0..MaxVectors}

\* Whether the vectors of the list do not all have one length.
Mixed(points) == \E i, j \in 1..Len(points) : Len(points[i]) # Len(points[j])

\* Lists with vectors of length 1 and of length 2.  On a coordinate that a
\* vector does not have the arithmetic of cluster yields NaN, which is not
\* modelled: these lists are given to cluster with a k that makes it take
\* the early return.
MixedLists ==
  {points \in UNION {[1..n -> Points \cup {<<1>>}] : n \in 2..MaxVectors} : Mixed(points)}

KValues == -1..MaxK

AsCentroid(vector) == [sum |-> vector, n |-> 1]

RECURSIVE SumSquares(_, _)
SumSquares(diffs, i) ==
  IF i > Len(diffs) THEN 0 ELSE diffs[i] * diffs[i] + SumSquares(diffs, i + 1)

\* The square of euclideanDistance(a, b), times the square of b.n.
ScaledSquareDistance(a, b) ==
  SumSquares([i \in 1..Len(a) |-> b.n * a[i] - b.sum[i]], 1)

\* euclideanDistance(a, b1) < euclideanDistance(a, b2)
Nearer(a, b1, b2) ==
  ScaledSquareDistance(a, b1) * b2.n * b2.n < ScaledSquareDistance(a, b2) * b1.n * b1.n

\* The inner loop with `distance <= minDistance`.
RECURSIVE NearestCentroidLast(_, _, _, _, _, _)
NearestCentroidLast(point, centroids, k, j, minAt, bestCluster) ==
  IF j >= k THEN bestCluster
  ELSE IF minAt = -1 \/ ~Nearer(point, centroids[minAt + 1], centroids[j + 1])
       THEN NearestCentroidLast(point, centroids, k, j + 1, j, j)
       ELSE NearestCentroidLast(point, centroids, k, j + 1, minAt, bestCluster)

\* The inner loop of the assignment: j is the centroid looked at, minAt the
\* centroid minDistance was taken from (-1 while minDistance is Infinity).
RECURSIVE NearestCentroid(_, _, _, _, _, _)
NearestCentroid(point, centroids, k, j, minAt, bestCluster) ==
  IF j >= k THEN bestCluster
  ELSE IF minAt = -1 \/ Nearer(point, centroids[j + 1], centroids[minAt + 1])
       THEN NearestCentroid(point, centroids, k, j + 1, j, j)
       ELSE NearestCentroid(point, centroids, k, j + 1, minAt, bestCluster)

AssignPoints(points, centroids, k) ==
  [i \in 1..Len(points) |-> NearestCentroid(points[i], centroids, k, 0, -1, 0)]

RECURSIVE SumVectors(_, _, _)
SumVectors(points, members, dimension) ==
  IF members = {} THEN [d \in 1..dimension |-> 0]
  ELSE LET i == CHOOSE m \in members : TRUE
           rest == SumVectors(points, members \ {i}, dimension)
       IN [d \in 1..dimension |-> points[i][d] + rest[d]]

\* calculateCentroid with the first of the vectors for their mean.
calculateCentroidFirst(points, members) ==
  AsCentroid(points[CHOOSE m \in members : \A o \in members : m <= o])

\* calculateCentroid of the vectors at the positions in members
calculateCentroid(points, members) ==
  [sum |-> SumVectors(points, members, Len(points[CHOOSE m \in members : TRUE])),
   n |-> Cardinality(members)]

\* The filter of the result loop with >= for ===.
MembersFrom(assignments, j) == {i \in DOMAIN assignments : assignments[i] >= j}

Members(assignments, j) == {i \in DOMAIN assignments : assignments[i] = j}

UpdateCentroids(points, centroids, assignments, k) ==
  [c \in 1..Len(centroids) |->
     IF c <= k /\ Members(assignments, c - 1) # {}
     THEN calculateCentroid(points, Members(assignments, c - 1))
     ELSE centroids[c]]

\* arraysEqual
arraysEqual(a, b) == Len(a) = Len(b) /\ \A i \in 1..Len(a) : a[i] = b[i]

\* The weight of a point in the choice of the next centroid: 0 for a point
\* already chosen, else the square of its distance to the nearest centroid.
SeedWeight(points, centroids, used, j) ==
  IF j \in used THEN 0
  ELSE LET ds == {ScaledSquareDistance(points[j], centroids[c]) : c \in 1..Len(centroids)}
       IN CHOOSE d \in ds : \A e \in ds : d <= e

\* The positions the weighted selection can end at: the first point not yet
\* chosen (randomValue is 0), a point not yet chosen with a positive weight,
\* or the first point of the input, which selectedIndex starts from and
\* keeps when rounding leaves randomValue positive after the last point.
SeedChoices(points, centroids, used) ==
  LET unused == (1..Len(points)) \ used
      first == CHOOSE j \in unused : \A u \in unused : j <= u
  IN {first} \cup {j \in unused : SeedWeight(points, centroids, used, j) > 0} \cup {1}

RECURSIVE SortIds(_)
SortIds(ids) ==
  IF ids = {} THEN <<>>
  ELSE LET least == CHOOSE i \in ids : \A o \in ids : i <= o
       IN <<least>> \o SortIds(ids \ {least})

\* The early return with every cluster given the centroid of the first.
SingletonClustersOneCentroid(points) ==
  [i \in 1..Len(points) |->
     [id |-> i - 1, title |-> i, items |-> <<i>>, centroid |-> AsCentroid(points[1])]]

\* The clusters of the early return for an input of at most k vectors.
SingletonClusters(points) ==
  [i \in 1..Len(points) |->
     [id |-> i - 1, title |-> i, items |-> <<i>>, centroid |-> AsCentroid(points[i])]]

\* The result loop: one cluster for every j below k that has items.
RECURSIVE BuildResult(_, _, _, _)
BuildResult(centroids, assignments, k, j) ==
  IF j >= k THEN <<>>
  ELSE LET clusterItems == SortIds(Members(assignments, j))
           rest == BuildResult(centroids, assignments, k, j + 1)
       IN IF Len(clusterItems) > 0
          THEN <<[id |-> j, title |-> j + 1, items |-> clusterItems,
                  centroid |-> centroids[j + 1]]>> \o rest
          ELSE rest

(***************************************************************************)
(* InMemoryVectorStore.  records is the Map in insertion order, dimension  *)
(* the store's dimension field (0 until the first add).  A call gives the  *)
(* store it leaves and its result: status "ok" or "error" (the call        *)
(* throws), found (what remove returns) and hits (what search returns).    *)
(* A score is kept as the fraction num / den, the cosine's square with the *)
(* cosine's sign, so that scores compare as the cosines do and the score   *)
(* is 1 exactly when num = den.                                            *)
(***************************************************************************)
StoreIds == 1..MaxStoreIds

\* The vectors of a call: four of length 2 (the zero vector, two vectors of
\* one direction, one across them) and one of length 1.
StoreVectors == {<<0, 0>>, <<1, 0>>, <<2, 0>>, <<0, 1>>, <<1>>}

Metadatas == {"m1", "m2"}

TopKs == 1..MaxTopK

EmptyStore == [records |-> <<>>, dimension |-> 0]

CallResult(status, found, hits) == [status |-> status, found |-> found, hits |-> hits]

HasRecord(records, id) == \E i \in 1..Len(records) : records[i].id = id

\* add without the comparison of the vector's length with the dimension.
InMemoryAddUnchecked(store, id, vector, metadata) ==
  LET record == [id |-> id, vector |-> vector, metadata |-> metadata]
      records == IF HasRecord(store.records, id)
                 THEN [i \in 1..Len(store.records) |->
                         IF store.records[i].id = id THEN record ELSE store.records[i]]
                 ELSE Append(store.records, record)
  IN [store |-> [records |-> records,
                 dimension |-> IF store.dimension = 0 THEN Len(vector)
                               ELSE store.dimension],
      result |-> CallResult("ok", FALSE, <<>>)]

InMemoryAdd(store, id, vector, metadata) ==
  IF store.dimension # 0 /\ Len(vector) # store.dimension
  THEN [store |-> store, result |-> CallResult("error", FALSE, <<>>)]
  ELSE LET record == [id |-> id, vector |-> vector, metadata |-> metadata]
           records == IF HasRecord(store.records, id)
                      THEN [i \in 1..Len(store.records) |->
                              IF store.records[i].id = id THEN record
                              ELSE store.records[i]]
                      ELSE Append(store.records, record)
       IN [store |-> [records |-> records,
                      dimension |-> IF store.dimension = 0 THEN Len(vector)
                                    ELSE store.dimension],
           result |-> CallResult("ok", FALSE, <<>>)]

InMemoryRemove(store, id) ==
  LET Other(record) == record.id # id
  IN [store |-> [store EXCEPT !.records = SelectSeq(store.records, Other)],
      result |-> CallResult("ok", HasRecord(store.records, id), <<>>)]

InMemoryClear(store) ==
  [store |-> EmptyStore, result |-> CallResult("ok", FALSE, <<>>)]

RECURSIVE DotProduct(_, _, _)
DotProduct(a, b, i) ==
  IF i > Len(a) THEN 0 ELSE a[i] * b[i] + DotProduct(a, b, i + 1)

\* cosineSimilarity for two vectors of one length
cosineSimilarity(a, b) ==
  LET dotProduct == DotProduct(a, b, 1)
      normA == DotProduct(a, a, 1)
      normB == DotProduct(b, b, 1)
  IN IF normA = 0 \/ normB = 0 THEN [num |-> 0, den |-> 1]
     ELSE [num |-> (IF dotProduct < 0 THEN -1 ELSE 1) * dotProduct * dotProduct,
           den |-> normA * normB]

ScoreGreater(s, t) == s.num * t.den > t.num * s.den

ScoreIsOne(s) == s.num = s.den

\* search without its sort.
Unsorted(items) == items

\* sort((a, b) => b.score - a.score): by falling score, and in the order
\* given among equal scores.
RECURSIVE SortByScore(_)
SortByScore(items) ==
  IF items = <<>> THEN <<>>
  ELSE LET top == CHOOSE i \in 1..Len(items) :
                    /\ \A j \in 1..Len(items) : ~ScoreGreater(items[j].score, items[i].score)
                    /\ \A j \in 1..(i - 1) : ScoreGreater(items[i].score, items[j].score)
           rest == [j \in 1..(Len(items) - 1) |-> IF j < top THEN items[j] ELSE items[j + 1]]
       IN <<items[top]>> \o SortByScore(rest)

\* slice(0, topK)
Slice(items, topK) == SubSeq(items, 1, IF topK < Len(items) THEN topK ELSE Len(items))

InMemorySearch(store, queryVector, topK) ==
  IF Len(queryVector) # store.dimension
  THEN [store |-> store, result |-> CallResult("error", FALSE, <<>>)]
  ELSE IF \E i \in 1..Len(store.records) : Len(store.records[i].vector) # Len(queryVector)
  THEN [store |-> store, result |-> CallResult("error", FALSE, <<>>)]
  ELSE LET scored == [i \in 1..Len(store.records) |->
                        [id |-> store.records[i].id,
                         score |-> cosineSimilarity(queryVector, store.records[i].vector),
                         metadata |-> store.records[i].metadata]]
       IN [store |-> store,
           result |-> CallResult("ok", FALSE, Slice(SortByScore(scored), topK))]

\* No vector store is under test.
NoStore ==
  [kind |-> "none", records |-> <<>>, dimension |-> 0, collection |-> <<>>,
   last |-> [op |-> "none", id |-> 0, vector |-> <<>>, metadata |-> "", topK |-> 0,
             result |-> CallResult("none", FALSE, <<>>)]]

\* No call of a chunker is under way.
NoChunking ==
  [pc |-> "idle", mode |-> "none", text |-> <<>>,
   response |-> [kind |-> "none", chunks |-> <<>>],
   result |-> [status |-> "none", chunks |-> <<>>]]

\* No call of cluster is under way.
NoRun ==
  [pc |-> "idle", vectors |-> <<>>, k |-> 0, centroids |-> <<>>, used |-> {},
   assignments |-> <<>>, prevAssignments |-> <<>>, iteration |-> 0, clusters |-> <<>>]

\* No upload is followed step by step.
NoUpload ==
  [pc |-> "idle", files |-> <<>>, bookId |-> 0, type |-> "none", book |-> 0, file |-> 0,
   section |-> 0, contents |-> <<>>, chunk |-> 0, embedded |-> {}, failure |-> FALSE,
   status |-> 0]

\* No request is in flight.
NoCalls == <<>>

\* The chunk objects are not told apart from their records.
NoObjects == [map |-> <<>>, heap |-> <<>>]

(***************************************************************************)
(* The state machine.  lastOp tells the last request (op, the id and the   *)
(* argument it carried), what its external calls did (note) and its answer *)
(* (status); for an upload to an existing book it also tells what was left *)
(* of the book's previous structure when chunking started.  requests and   *)
(* failures count the requests served and the external calls that failed.  *)
(***************************************************************************)
Op(op, id, arg, note, status) ==
  [op |-> op, id |-> id, arg |-> arg, note |-> note, status |-> status,
   staleVectors |-> {}, staleRecords |-> {}]

\* The chunk is the first of its section and is moved up, or the last and is
\* moved down.
AtBoundary(st, id, direction) ==
  /\ id \in DOMAIN st.chunks
  /\ LET siblings == getChunksBySectionId(st, st.chunks[id].sectionId)
     IN \/ direction = "up" /\ siblings[1] = id
        \/ direction = "down" /\ siblings[Len(siblings)] = id

Init ==
  /\ books = <<>>
  /\ chapters = <<>>
  /\ sections = <<>>
  /\ chunks = <<>>
  /\ vectors = [c \in Collections |-> <<>>]
  /\ nextId = 1
  /\ lastOp = Op("init", NoId, "", "", 200)
  /\ requests = 0
  /\ failures = 0
  /\ km = NoRun
  /\ vs = NoStore
  /\ ck = NoChunking
  /\ up = NoUpload
  /\ rq = NoCalls
  /\ objs = NoObjects

Commit(out, op, failed) ==
  /\ failures + failed <= MaxFailures
  /\ failures' = failures + failed
  /\ requests' = requests + 1
  /\ books' = out.st.books
  /\ chapters' = out.st.chapters
  /\ sections' = out.st.sections
  /\ chunks' = out.st.chunks
  /\ vectors' = out.st.vectors
  /\ nextId' = out.st.nextId
  /\ lastOp' = op
  /\ UNCHANGED <<km, vs, ck, up, rq, objs>>

\* The chunks a request may name: the stored ones, and one that is not.
ChunkIds == DOMAIN chunks \cup {NoId}

\* The sections a request may name: the stored ones, and one that is not.
SectionIds == DOMAIN sections \cup {NoId}

\* The book's previous chapters, sections and chunks.
PreviousRecords(st, bookId) ==
  LET hs == {h \in DOMAIN st.chapters : st.chapters[h].bookId = bookId}
      ss == {s \in DOMAIN st.sections : st.sections[s].chapterId \in hs}
      cs == {c \in DOMAIN st.chunks : st.chunks[c].sectionId \in ss}
  IN hs \cup ss \cup cs

UploadRequest ==
  /\ requests < MaxRequests
  /\ \E files \in FileLists, bookId \in {NoId} \cup DOMAIN books, type \in EmbeddingTypes :
       LET st == Store
           typeToUse == TypeToUse(st, bookId, type)
           oldChunks == IF bookId = NoId THEN {} ELSE getAllChunksByBookId(st, bookId)
       IN \* embeddingType says nothing in a request that names a book
          /\ bookId # NoId => type = "openai"
          /\ \E stuck \in SUBSET oldChunks, chunked \in ChunkingResults(files, typeToUse) :
               \E fail \in FailurePoints(stuck # {}, typeToUse, chunked) :
                 LET out == Upload(st, files, bookId, type, stuck, chunked, fail)
                     cleaned == DeleteOldStructure(st, bookId, stuck)
                     rechunks == bookId # NoId /\ ReachesChunking(st, files, bookId, fail)
                     left == DOMAIN cleaned.chapters \cup DOMAIN cleaned.sections
                               \cup DOMAIN cleaned.chunks
                     collection == CollectionName(typeToUse)
                 IN Commit(out,
                           [Op("upload", bookId, "", fail.stage, out.status) EXCEPT
                              !.staleVectors =
                                 IF rechunks
                                 THEN oldChunks \cap DOMAIN cleaned.vectors[collection]
                                 ELSE {},
                              !.staleRecords =
                                 IF rechunks
                                 THEN PreviousRecords(st, bookId) \cap left
                                 ELSE {}],
                           IF fail.stage = "remove" THEN 1
                           ELSE (IF stuck # {} THEN 1 ELSE 0)
                                  + (IF fail # NoFailure THEN 1 ELSE 0))

EditRequest ==
  /\ requests < MaxRequests
  /\ \E id \in ChunkIds, content \in EditContents :
       \E fail \in EditFailures(Store, id, content) :
         LET out == EditChunk(Store, id, content, fail)
         IN Commit(out, Op("edit", id, content, fail, out.status), IF fail # "none" THEN 1 ELSE 0)

DeleteRequest ==
  /\ requests < MaxRequests
  /\ \E id \in ChunkIds :
       \E removal \in Removals(Store, id) :
         LET out == DeleteChunk(Store, id, removal)
         IN Commit(out, Op("delete", id, "", removal, out.status),
                   IF removal # "removed" THEN 1 ELSE 0)

CreateRequest ==
  /\ requests < MaxRequests
  /\ \E sectionId \in SectionIds :
       LET out == CreateChunk(Store, sectionId, EmptyString,
                              IF sectionId \in DOMAIN sections
                              THEN ClientOrder(Store, sectionId) ELSE 0)
       IN Commit(out, Op("create", sectionId, "", "", out.status), 0)

\* The directions a request may carry: the two the route accepts, and one
\* it rejects.
Directions == {"up", "down", "left"}

ReorderRequest ==
  /\ requests < MaxRequests
  /\ \E id \in ChunkIds, direction \in Directions :
       LET out == ReorderChunk(Store, id, direction)
           place == IF id \notin DOMAIN chunks \/ direction \notin {"up", "down"} THEN ""
                    ELSE IF AtBoundary(Store, id, direction) THEN "boundary" ELSE "inner"
       IN Commit(out, Op("reorder", id, direction, place, out.status), 0)

Next ==
  \/ UploadRequest
  \/ EditRequest
  \/ DeleteRequest
  \/ CreateRequest
  \/ ReorderRequest

Spec == Init /\ [][Next]_vars

(***************************************************************************)
(* One call of cluster(vectors, k), step by step: the early returns, the   *)
(* choice of the first centroid and of each further one, one round of the  *)
(* loop, and the building of the result.  km.pc tells where the call is.   *)
(***************************************************************************)
StoreUnchanged ==
  UNCHANGED <<books, chapters, sections, chunks, vectors, nextId, lastOp, requests, failures>>

InitCluster ==
  /\ books = <<>>
  /\ chapters = <<>>
  /\ sections = <<>>
  /\ chunks = <<>>
  /\ vectors = [c \in Collections |-> <<>>]
  /\ nextId = 1
  /\ lastOp = Op("init", NoId, "", "", 200)
  /\ requests = 0
  /\ failures = 0
  /\ vs = NoStore
  /\ ck = NoChunking
  /\ up = NoUpload
  /\ rq = NoCalls
  /\ objs = NoObjects
  /\ \E points \in VectorLists \cup MixedLists, k \in KValues :
       /\ Mixed(points) => Len(points) <= k
       /\ km = [NoRun EXCEPT !.pc = "call", !.vectors = points, !.k = k]

ReturnEarly ==
  /\ km.pc = "call"
  /\ Len(km.vectors) = 0 \/ Len(km.vectors) <= km.k
  /\ km' = [km EXCEPT !.pc = "done",
                      !.clusters = IF Len(km.vectors) = 0 THEN <<>>
                                   ELSE SingletonClusters(km.vectors)]
  /\ StoreUnchanged
  /\ UNCHANGED <<vs, ck, up, rq, objs>>

SeedFirst ==
  /\ km.pc = "call"
  /\ ~(Len(km.vectors) = 0 \/ Len(km.vectors) <= km.k)
  /\ \E firstIndex \in 1..Len(km.vectors) :
       km' = [km EXCEPT !.pc = IF 1 < km.k THEN "seed" ELSE "loop",
                        !.centroids = <<AsCentroid(km.vectors[firstIndex])>>,
                        !.used = {firstIndex},
                        !.assignments = [i \in 1..Len(km.vectors) |-> 0],
                        !.prevAssignments = [i \in 1..Len(km.vectors) |-> -1]]
  /\ StoreUnchanged
  /\ UNCHANGED <<vs, ck, up, rq, objs>>

SeedNext ==
  /\ km.pc = "seed"
  /\ \E selectedIndex \in SeedChoices(km.vectors, km.centroids, km.used) :
       km' = [km EXCEPT !.pc = IF Len(km.centroids) + 1 < km.k THEN "seed" ELSE "loop",
                        !.centroids = Append(km.centroids,
                                             AsCentroid(km.vectors[selectedIndex])),
                        !.used = km.used \cup {selectedIndex}]
  /\ StoreUnchanged
  /\ UNCHANGED <<vs, ck, up, rq, objs>>

\* The first half of a round: the points are assigned, and the loop is left
\* when the assignments are those of the round before.
AssignRound ==
  /\ km.pc = "loop"
  /\ km.iteration < maxIterations
  /\ km' = [km EXCEPT
              !.assignments = AssignPoints(km.vectors, km.centroids, km.k),
              !.pc = IF arraysEqual(AssignPoints(km.vectors, km.centroids, km.k),
                                    km.prevAssignments)
                     THEN "result" ELSE "update"]
  /\ StoreUnchanged
  /\ UNCHANGED <<vs, ck, up, rq, objs>>

\* The second half: the assignments are kept and the centroids recomputed.
UpdateRound ==
  /\ km.pc = "update"
  /\ km' = [km EXCEPT
              !.pc = IF km.iteration + 1 < maxIterations THEN "loop" ELSE "result",
              !.prevAssignments = km.assignments,
              !.centroids = UpdateCentroids(km.vectors, km.centroids, km.assignments, km.k),
              !.iteration = km.iteration + 1]
  /\ StoreUnchanged
  /\ UNCHANGED <<vs, ck, up, rq, objs>>

ReturnClusters ==
  /\ km.pc = "result"
  /\ km' = [km EXCEPT !.pc = "done",
                      !.clusters = BuildResult(km.centroids, km.assignments, km.k, 0)]
  /\ StoreUnchanged
  /\ UNCHANGED <<vs, ck, up, rq, objs>>

NextCluster ==
  \/ ReturnEarly
  \/ SeedFirst
  \/ SeedNext
  \/ AssignRound
  \/ UpdateRound
  \/ ReturnClusters

SpecCluster == InitCluster /\ [][NextCluster]_vars

\* The same with the call as a step of its own: cluster is called once, and
\* being one synchronous call it runs until it returns.
InitBeforeCluster ==
  /\ books = <<>>
  /\ chapters = <<>>
  /\ sections = <<>>
  /\ chunks = <<>>
  /\ vectors = [c \in Collections |-> <<>>]
  /\ nextId = 1
  /\ lastOp = Op("init", NoId, "", "", 200)
  /\ requests = 0
  /\ failures = 0
  /\ vs = NoStore
  /\ ck = NoChunking
  /\ up = NoUpload
  /\ rq = NoCalls
  /\ objs = NoObjects
  /\ km = NoRun

CallCluster ==
  /\ km.pc = "idle"
  /\ \E points \in VectorLists \cup MixedLists, k \in KValues :
       /\ Mixed(points) => Len(points) <= k
       /\ km' = [NoRun EXCEPT !.pc = "call", !.vectors = points, !.k = k]
  /\ StoreUnchanged
  /\ UNCHANGED <<vs, ck, up, rq, objs>>

NextClusterCalled == CallCluster \/ NextCluster

SpecClusterFair ==
  InitBeforeCluster /\ [][NextClusterCalled]_vars /\ WF_vars(NextClusterCalled)

(***************************************************************************)
(* The calls of a vector store, one action per call.  vs.kind tells which  *)
(* store is called: the InMemoryVectorStore (records, dimension) or one    *)
(* collection of the ChromaVectorStore (collection).  vs.last tells the    *)
(* last call and its result, requests counts the calls.  A call of the     *)
(* Chroma client may fail.                                                 *)
(***************************************************************************)
CallCounted ==
  /\ requests' = requests + 1
  /\ UNCHANGED <<books, chapters, sections, chunks, vectors, nextId, lastOp, failures, km, ck,
               up, rq, objs>>

Call(op, id, vector, metadata, topK, result) ==
  [op |-> op, id |-> id, vector |-> vector, metadata |-> metadata, topK |-> topK,
   result |-> result]

InitVectorStore ==
  /\ books = <<>>
  /\ chapters = <<>>
  /\ sections = <<>>
  /\ chunks = <<>>
  /\ vectors = [c \in Collections |-> <<>>]
  /\ nextId = 1
  /\ lastOp = Op("init", NoId, "", "", 200)
  /\ requests = 0
  /\ failures = 0
  /\ km = NoRun
  /\ ck = NoChunking
  /\ up = NoUpload
  /\ rq = NoCalls
  /\ objs = NoObjects
  /\ \E kind \in {"mem", "chroma"} : vs = [NoStore EXCEPT !.kind = kind]

InMemoryStore == [records |-> vs.records, dimension |-> vs.dimension]

AfterInMemory(out, call) ==
  vs' = [vs EXCEPT !.records = out.store.records,
                   !.dimension = out.store.dimension,
                   !.last = call]

MemAdd ==
  /\ requests < MaxCalls
  /\ vs.kind = "mem"
  /\ \E id \in StoreIds, vector \in StoreVectors, metadata \in Metadatas :
       LET out == InMemoryAdd(InMemoryStore, id, vector, metadata)
       IN AfterInMemory(out, Call("add", id, vector, metadata, 0, out.result))
  /\ CallCounted

MemRemove ==
  /\ requests < MaxCalls
  /\ vs.kind = "mem"
  /\ \E id \in StoreIds :
       LET out == InMemoryRemove(InMemoryStore, id)
       IN AfterInMemory(out, Call("remove", id, <<>>, "", 0, out.result))
  /\ CallCounted

MemSearch ==
  /\ requests < MaxCalls
  /\ vs.kind = "mem"
  /\ \E queryVector \in StoreVectors, topK \in TopKs :
       LET out == InMemorySearch(InMemoryStore, queryVector, topK)
       IN AfterInMemory(out, Call("search", 0, queryVector, "", topK, out.result))
  /\ CallCounted

MemClear ==
  /\ requests < MaxCalls
  /\ vs.kind = "mem"
  /\ LET out == InMemoryClear(InMemoryStore)
     IN AfterInMemory(out, Call("clear", 0, <<>>, "", 0, out.result))
  /\ CallCounted

\* ChromaVectorStore.add: the error of getCollection or of collection.add is
\* the caller's.  The server takes no vector of another length than the
\* vectors the collection holds.
ChromaAdd ==
  /\ requests < MaxCalls
  /\ vs.kind = "chroma"
  /\ \E id \in StoreIds, vector \in StoreVectors, metadata \in Metadatas,
        outcome \in {"ok", "throws"} :
       /\ outcome = "ok"
            => \A held \in DOMAIN vs.collection :
                 Len(vs.collection[held].vector) = Len(vector)
       /\ vs' = [vs EXCEPT
                  !.collection = IF outcome = "ok"
                                 THEN collectionAdd(vs.collection, id,
                                                    [vector |-> vector,
                                                     metadata |-> metadata])
                                 ELSE vs.collection,
                  !.last = Call("add", id, vector, metadata, 0,
                                CallResult(IF outcome = "ok" THEN "ok" ELSE "error",
                                           FALSE, <<>>))]
  /\ CallCounted

\* ChromaVectorStore.remove: true when collection.delete returns, false when
\* it throws; the error of getCollection is the caller's.
ChromaRemove ==
  /\ requests < MaxCalls
  /\ vs.kind = "chroma"
  /\ \E id \in StoreIds, removal \in {"removed", "false", "throws"} :
       vs' = [vs EXCEPT
                !.collection = IF removal = "removed"
                               THEN collectionDelete(vs.collection, id)
                               ELSE vs.collection,
                !.last = Call("remove", id, <<>>, "", 0,
                              CallResult(IF removal = "throws" THEN "error" ELSE "ok",
                                         removal = "removed", <<>>))]
  /\ CallCounted

NextVectorStore ==
  \/ MemAdd
  \/ MemRemove
  \/ MemSearch
  \/ MemClear
  \/ ChromaAdd
  \/ ChromaRemove

SpecVectorStore == InitVectorStore /\ [][NextVectorStore]_vars

(***************************************************************************)
(* The chunkers, one call each: the rule-based localChunkText on a text    *)
(* and the delegated chunkText on a provider's answer.                     *)
(***************************************************************************)
InitChunker ==
  /\ books = <<>>
  /\ chapters = <<>>
  /\ sections = <<>>
  /\ chunks = <<>>
  /\ vectors = [c \in Collections |-> <<>>]
  /\ nextId = 1
  /\ lastOp = Op("init", NoId, "", "", 200)
  /\ requests = 0
  /\ failures = 0
  /\ km = NoRun
  /\ vs = NoStore
  /\ \/ \E text \in Texts : ck = [NoChunking EXCEPT !.mode = "local", !.text = text]
     \/ \E response \in ProviderResponses :
          ck = [NoChunking EXCEPT !.mode = "delegated", !.response = response]
  /\ up = NoUpload
  /\ rq = NoCalls
  /\ objs = NoObjects

ChunkerOnly ==
  UNCHANGED <<books, chapters, sections, chunks, vectors, nextId, lastOp, requests, failures,
              km, vs, up, rq, objs>>

LocalChunk ==
  /\ ck.pc = "idle"
  /\ ck.mode = "local"
  /\ ck' = [ck EXCEPT !.pc = "done",
                      !.result = [status |-> "ok", chunks |-> localChunkText(ck.text)]]
  /\ ChunkerOnly

DelegatedChunk ==
  /\ ck.pc = "idle"
  /\ ck.mode = "delegated"
  /\ ck' = [ck EXCEPT !.pc = "done", !.result = chunkText(ck.response)]
  /\ ChunkerOnly

NextChunker == LocalChunk \/ DelegatedChunk

SpecChunker == InitChunker /\ [][NextChunker]_vars

(***************************************************************************)
(* The request handlers of the clustering routes (server/routes.ts), over  *)
(* the same storage and the InMemoryVectorStore: the store's records and    *)
(* dimension are in vs.  A key of the store is `chunk_${index}` or the id   *)
(* of a chunk.                                                              *)
(***************************************************************************)
IndexKey(index) == [kind |-> "index", n |-> index]

IdKey(id) == [kind |-> "id", n |-> id]

\* An embedding of the provider, a vector of one length for every text.
generateEmbedding(text) == <<Embed("openai", text)>>

Larger(a, b) == IF a > b THEN a ELSE b

Smaller(a, b) == IF a < b THEN a ELSE b

\* Math.min(Math.max(2, Math.ceil(n / 4)), 6)
numClusters(n) == Smaller(Larger(2, (n + 3) \div 4), 6)

\* The answers of the provider to an upload: the request throws, or the text
\* comes back as no chunk, one chunk or two chunks.  With at most two chunks
\* cluster takes its early return (vectors.length <= k).
RouteResponses ==
  {[kind |-> "throws", chunks |-> <<>>],
   [kind |-> "array", chunks |-> <<>>],
   [kind |-> "array", chunks |-> <<[present |-> TRUE, content |-> <<"a">>]>>],
   [kind |-> "array", chunks |-> <<[present |-> TRUE, content |-> <<"a">>],
                                   [present |-> FALSE, content |-> <<>>]>>]}

\* oldChunks.forEach(chunk => vectorStore.remove(chunk.id))
RECURSIVE RemoveByChunkId(_, _)
RemoveByChunkId(mem, ids) ==
  IF ids = {} THEN mem
  ELSE LET id == CHOOSE c \in ids : TRUE
       IN RemoveByChunkId(InMemoryRemove(mem, IdKey(id)).store, ids \ {id})

\* Step 4: the vector of the chunk at index i - 1 is stored as chunk_<i - 1>.
RECURSIVE AddByIndex(_, _, _, _)
AddByIndex(mem, contents, bookId, i) ==
  IF i > Len(contents) THEN mem
  ELSE AddByIndex(InMemoryAdd(mem, IndexKey(i - 1), generateEmbedding(contents[i]),
                              [content |-> contents[i], bookId |-> bookId]).store,
                  contents, bookId, i + 1)

\* Step 7, inner loop: the chunks of a section, with generated ids.
RECURSIVE CreateSectionChunks(_, _, _, _, _)
CreateSectionChunks(st, sectionId, items, contents, chunkIndex) ==
  IF chunkIndex > Len(items) THEN st
  ELSE LET content == contents[items[chunkIndex]]
       IN CreateSectionChunks(createChunk(st, sectionId, content,
                                          generateEmbedding(content), chunkIndex - 1, 1),
                              sectionId, items, contents, chunkIndex + 1)

\* Step 7: a chapter with one section for every cluster.
RECURSIVE CreateStructure(_, _, _, _, _)
CreateStructure(st, bookId, clusters, contents, chapterIndex) ==
  IF chapterIndex > Len(clusters) THEN st
  ELSE LET withChapter == createChapter(st, bookId, chapterIndex - 1)
           withSection == createSection(withChapter, st.nextId, 0)
           withChunks == CreateSectionChunks(withSection, withChapter.nextId,
                                             clusters[chapterIndex].items, contents, 1)
       IN CreateStructure(withChunks, bookId, clusters, contents, chapterIndex + 1)

RouteAnswer(st, mem, book, status) ==
  [st |-> st, mem |-> mem, book |-> book, status |-> status]

RoutesUpload(st, mem, files, bookId, response, embedFails) ==
  LET known == bookId \in DOMAIN st.books
      cleared == IF known THEN deleteChaptersByBookId(st, bookId) ELSE st
      memCleared == IF known THEN RemoveByChunkId(mem, getAllChunksByBookId(st, bookId))
                    ELSE mem
      chunking == chunkText(response)
      contents == [i \in 1..Len(chunking.chunks) |-> chunking.chunks[i].content]
      withBook == IF known THEN cleared ELSE createBook(cleared, "openai")
      book == IF known THEN bookId ELSE cleared.nextId
      memAdded == AddByIndex(memCleared, contents, book, 1)
      embeddings == [i \in 1..Len(contents) |-> generateEmbedding(contents[i])]
      clusters == SingletonClusters(embeddings)
  IN IF files # "text" THEN RouteAnswer(st, mem, NoId, 400)
     ELSE IF chunking.status = "error" THEN RouteAnswer(cleared, memCleared, NoId, 500)
     ELSE IF embedFails THEN RouteAnswer(withBook, memCleared, book, 500)
     ELSE RouteAnswer(CreateStructure(withBook, book, clusters, contents, 1),
                      memAdded, book, 200)

RoutesEditChunk(st, mem, id, content, embedFails) ==
  IF id \notin DOMAIN st.chunks THEN RouteAnswer(st, mem, NoId, 404)
  ELSE IF ContentChanged(st.chunks[id], content)
  THEN IF embedFails THEN RouteAnswer(st, mem, NoId, 500)
       ELSE RouteAnswer(updateChunk(st, id, [content |-> content,
                                             embedding |-> generateEmbedding(content),
                                             isEmbedded |-> 1]),
                        InMemoryAdd(mem, IdKey(id), generateEmbedding(content),
                                    [content |-> content, bookId |-> NoId]).store,
                        NoId, 200)
  ELSE RouteAnswer(updateChunk(st, id, [content |-> content]), mem, NoId, 200)

RoutesDeleteChunk(st, mem, id) ==
  IF id \notin DOMAIN st.chunks THEN RouteAnswer(st, mem, NoId, 404)
  ELSE RouteAnswer(deleteChunk(st, id), InMemoryRemove(mem, IdKey(id)).store, NoId, 200)

InitRoutes ==
  /\ books = <<>>
  /\ chapters = <<>>
  /\ sections = <<>>
  /\ chunks = <<>>
  /\ vectors = [c \in Collections |-> <<>>]
  /\ nextId = 1
  /\ lastOp = Op("init", NoId, "", "", 200)
  /\ requests = 0
  /\ failures = 0
  /\ km = NoRun
  /\ vs = [NoStore EXCEPT !.kind = "mem"]
  /\ ck = NoChunking
  /\ up = NoUpload
  /\ rq = NoCalls
  /\ objs = NoObjects

RoutesCommit(out, op) ==
  /\ requests' = requests + 1
  /\ books' = out.st.books
  /\ chapters' = out.st.chapters
  /\ sections' = out.st.sections
  /\ chunks' = out.st.chunks
  /\ nextId' = out.st.nextId
  /\ vs' = [vs EXCEPT !.records = out.mem.records, !.dimension = out.mem.dimension]
  /\ lastOp' = op
  /\ UNCHANGED <<vectors, failures, km, ck, up, rq, objs>>

RoutesUploadRequest ==
  /\ requests < MaxRouteRequests
  /\ \E files \in {"none", "blank", "text"}, bookId \in DOMAIN books \cup {NoId},
        response \in RouteResponses, embedFails \in BOOLEAN :
       /\ Len(response.chunks) <= numClusters(Len(response.chunks))
       /\ LET out == RoutesUpload(Store, InMemoryStore, files, bookId, response, embedFails)
          IN RoutesCommit(out, Op("upload", out.book, "", "", out.status))

RoutesEditRequest ==
  /\ requests < MaxRouteRequests
  /\ \E id \in ChunkIds, content \in EditContents, embedFails \in BOOLEAN :
       LET out == RoutesEditChunk(Store, InMemoryStore, id, content, embedFails)
       IN RoutesCommit(out, Op("edit", id, content, "", out.status))

RoutesDeleteRequest ==
  /\ requests < MaxRouteRequests
  /\ \E id \in ChunkIds :
       LET out == RoutesDeleteChunk(Store, InMemoryStore, id)
       IN RoutesCommit(out, Op("delete", id, "", "", out.status))

NextRoutes ==
  \/ RoutesUploadRequest
  \/ RoutesEditRequest
  \/ RoutesDeleteRequest

SpecRoutes == InitRoutes /\ [][NextRoutes]_vars

(***************************************************************************)
(* What a search can see: with the chunk's vector as the query and topK as *)
(* large as the collection, search returns every id the collection holds.  *)
(***************************************************************************)
SearchHits(st, collection) == DOMAIN st.vectors[collection]

(***************************************************************************)
(* C1.  After any sequence of completed uploads, edits, deletions and      *)
(* reorderings in which no external call failed, every stored chunk whose  *)
(* isEmbedded flag is set belongs to a book and has a vector under its id  *)
(* in the collection of that book's embedding type.                        *)
(***************************************************************************)
C1_EmbeddedChunkHasVector ==
  failures = 0 =>
    \A c \in DOMAIN chunks :
      chunks[c].isEmbedded = 1 =>
        LET bookId == getBookFromChunk(Store, c)
        IN /\ bookId # NoId
           /\ c \in DOMAIN vectors[CollectionName(books[bookId].embeddingType)]

(***************************************************************************)
(* C2.  Once the deletion of a chunk has been answered with success, no    *)
(* search in any collection returns the chunk's id, whatever the vector    *)
(* store's remove reported.                                                *)
(***************************************************************************)
C2_DeletedChunkNotSearchable ==
  (lastOp.op = "delete" /\ lastOp.status = 200) =>
    \A collection \in Collections : lastOp.id \notin SearchHits(Store, collection)

(***************************************************************************)
(* C3.  An edit that changes a chunk's content is answered with success    *)
(* only when the vector stored under the chunk's id is the embedding of    *)
(* the new content; when the embedding cannot be generated the answer is   *)
(* an error and chunks and vectors are what they were.                     *)
(***************************************************************************)
C3_EditReembedsOrFails ==
  [][(/\ lastOp'.op = "edit"
      /\ lastOp'.id \in DOMAIN chunks
      /\ lastOp'.arg # chunks[lastOp'.id].content)
     => LET id == lastOp'.id
            bookId == getBookFromChunk(Store, id)
        IN /\ lastOp'.status = 200 =>
                /\ bookId # NoId
                /\ LET type == books[bookId].embeddingType
                       collection == CollectionName(type)
                   IN /\ id \in DOMAIN vectors'[collection]
                      /\ vectors'[collection][id] = Embed(type, lastOp'.arg)
           /\ lastOp'.note = "embed" =>
                /\ lastOp'.status # 200
                /\ chunks' = chunks
                /\ vectors' = vectors]_vars

(***************************************************************************)
(* C4.  An upload that is answered with an error leaves books, chapters,   *)
(* sections, chunks and vectors as they were before the request.           *)
(***************************************************************************)
C4_FailedUploadLeavesNothing ==
  [][(lastOp'.op = "upload" /\ lastOp'.status = 500)
     => UNCHANGED <<books, chapters, sections, chunks, vectors>>]_vars

(***************************************************************************)
(* C5.  After chunk creations and edits in which no external call failed,  *)
(* a stored chunk has its isEmbedded flag set and an embedding exactly     *)
(* when its embedding was generated from its current content.              *)
(***************************************************************************)
C5_EmbeddingMatchesContent ==
  failures = 0 =>
    \A c \in DOMAIN chunks :
      (chunks[c].isEmbedded = 1 /\ chunks[c].embedding # NullEmbedding)
        <=> (chunks[c].embedding # NullEmbedding
             /\ chunks[c].embedding.of = chunks[c].content)

(***************************************************************************)
(* C6.  When an upload to an existing book starts chunking, also when no   *)
(* external call has failed so far, no vector of the book's previous       *)
(* chunks and none of its previous chapters, sections and chunks is left.  *)
(***************************************************************************)
C6_ReuploadStartsClean ==
  (lastOp.op = "upload" /\ failures = 0)
    => lastOp.staleVectors = {} /\ lastOp.staleRecords = {}

(***************************************************************************)
(* C7.  After any sequence of requests in which no external call failed,   *)
(* the chunks of a section carry the orders 0 .. n-1, each once.           *)
(***************************************************************************)
C7_OrdersDense ==
  failures = 0 =>
    \A s \in DOMAIN sections :
      LET siblings == getChunksBySectionId(Store, s)
      IN \A i \in 1..Len(siblings) : chunks[siblings[i]].order = i - 1

(***************************************************************************)
(* C8.  Moving the first chunk of a section up, or the last one down, is   *)
(* answered with success and leaves the order of every chunk as it was.    *)
(***************************************************************************)
C8_BoundaryReorderIsNoOp ==
  [][(lastOp'.op = "reorder" /\ AtBoundary(Store, lastOp'.id, lastOp'.arg))
     => /\ lastOp'.status = 200
        /\ DOMAIN chunks' = DOMAIN chunks
        /\ \A c \in DOMAIN chunks : chunks'[c].order = chunks[c].order]_vars

\* A boundary move has been answered, in a section of at least two chunks.
C8_Witness ==
  /\ lastOp.op = "reorder"
  /\ lastOp.note = "boundary"
  /\ lastOp.status = 200
  /\ lastOp.id \in DOMAIN chunks
  /\ Len(getChunksBySectionId(Store, chunks[lastOp.id].sectionId)) >= 2

\* The sibling next to the chunk in the direction of the move.
Neighbour(st, id, direction) ==
  LET siblings == getChunksBySectionId(st, st.chunks[id].sectionId)
      i == CHOOSE k \in 1..Len(siblings) : siblings[k] = id
  IN siblings[IF direction = "up" THEN i - 1 ELSE i + 1]

OrdersOf(ch, sectionId) ==
  {ch[c].order : c \in {d \in DOMAIN ch : ch[d].sectionId = sectionId}}

RECURSIVE Occurrences(_, _, _)
Occurrences(clusters, id, c) ==
  IF c > Len(clusters) THEN 0
  ELSE Cardinality({i \in 1..Len(clusters[c].items) : clusters[c].items[i] = id})
         + Occurrences(clusters, id, c + 1)

\* Every id of the input occurs once in the items of the clusters, and
\* nothing else occurs.
Partitions(clusters, points) ==
  /\ \A id \in 1..Len(points) : Occurrences(clusters, id, 1) = 1
  /\ \A c \in 1..Len(clusters) :
       \A i \in 1..Len(clusters[c].items) : clusters[c].items[i] \in 1..Len(points)

(***************************************************************************)
(* C10, as stated.  For any k, the clusters cluster(vectors, k) returns    *)
(* partition the ids of the input.                                         *)
(***************************************************************************)
C10_PartitionForAnyK ==
  km.pc = "done" => Partitions(km.clusters, km.vectors)

(***************************************************************************)
(* C10, amended.  For any k of at least 1, the clusters cluster(vectors,   *)
(* k) returns partition the ids of the input.                              *)
(***************************************************************************)
C10_PartitionForPositiveK ==
  (km.pc = "done" /\ km.k >= 1) => Partitions(km.clusters, km.vectors)

\* The loop has ended with two clusters or more, from more vectors than k.
C10_Witness ==
  /\ km.pc = "done"
  /\ km.k >= 1
  /\ Len(km.vectors) > km.k
  /\ km.iteration >= 1
  /\ Len(km.clusters) >= 2

(***************************************************************************)
(* C11.  With k at least the number of vectors, cluster returns one        *)
(* cluster per vector, in the order of the input, whose only item is the   *)
(* vector's id and whose centroid is the vector; for an empty input it     *)
(* returns no cluster, whatever k.                                         *)
(***************************************************************************)
C11_SingletonsWhenKCoversInput ==
  (km.pc = "done" /\ (km.k >= Len(km.vectors) \/ Len(km.vectors) = 0))
    => /\ Len(km.clusters) = Len(km.vectors)
       /\ \A i \in 1..Len(km.vectors) :
            /\ km.clusters[i].items = <<i>>
            /\ km.clusters[i].centroid.n = 1
            /\ km.clusters[i].centroid.sum = km.vectors[i]

\* The early return has been taken for two different vectors or more.
C11_Witness ==
  /\ km.pc = "done"
  /\ km.k >= Len(km.vectors)
  /\ Len(km.vectors) >= 2
  /\ \E i, j \in 1..Len(km.vectors) : km.vectors[i] # km.vectors[j]
  /\ Len(km.clusters) = Len(km.vectors)

(***************************************************************************)
(* Claims about the vector stores, over SpecVectorStore.                   *)
(***************************************************************************)
\* The records of the store under test, by id.
Stored(v) ==
  IF v.kind = "mem"
  THEN [id \in {v.records[i].id : i \in 1..Len(v.records)} |->
          LET i == CHOOSE j \in 1..Len(v.records) : v.records[j].id = id
          IN [vector |-> v.records[i].vector, metadata |-> v.records[i].metadata]]
  ELSE v.collection

Size(v) == Cardinality(DOMAIN Stored(v))

OthersUnchanged(before, after, id) ==
  \A other \in DOMAIN Stored(before) \ {id} :
    other \in DOMAIN Stored(after) /\ Stored(after)[other] = Stored(before)[other]

\* C12: remove returns true exactly when a record with that id existed, and
\* removing an absent id returns false and leaves the size and the records
\* of the collection unchanged.
C12_RemoveTellsExistence ==
  [][(vs'.last.op = "remove" /\ vs'.last.result.status = "ok")
       => /\ vs'.last.result.found <=> (vs'.last.id \in DOMAIN Stored(vs))
          /\ vs'.last.id \notin DOMAIN Stored(vs)
               => (~vs'.last.result.found /\ Stored(vs') = Stored(vs))]_vars

\* The search for the vector just added, with topK 1.
SearchAfterAdd == InMemorySearch(InMemoryStore, vs.last.vector, 1).result

FindsItself ==
  /\ SearchAfterAdd.status = "ok"
  /\ Len(SearchAfterAdd.hits) = 1
  /\ SearchAfterAdd.hits[1].id = vs.last.id
  /\ ScoreIsOne(SearchAfterAdd.hits[1].score)

Added == vs.kind = "mem" /\ vs.last.op = "add" /\ vs.last.result.status = "ok"

\* No other record's vector has the direction of the vector just added.
AloneInDirection ==
  \A i \in 1..Len(vs.records) :
    vs.records[i].id # vs.last.id
      => ~ScoreIsOne(cosineSimilarity(vs.last.vector, vs.records[i].vector))

NonZero(vector) == DotProduct(vector, vector, 1) > 0

\* C13 as stated: right after add(c, id, v, m), whatever v and whatever the
\* other records, search(c, v, 1) returns exactly one result, with this id
\* and score 1.
C13_AddedVectorFindsItself == Added => FindsItself

\* C13 amended: right after add(c, id, v, m) of a vector v that is not the
\* zero vector, into a collection where no other record's vector has the
\* direction of v, search(c, v, 1) returns exactly one result, with this id
\* and score 1.
C13_NonZeroUnrivalledVectorFindsItself ==
  (Added /\ NonZero(vs.last.vector) /\ AloneInDirection) => FindsItself

C13_Witness ==
  /\ Added
  /\ NonZero(vs.last.vector)
  /\ AloneInDirection
  /\ Len(vs.records) = 2
  /\ vs.records[1].id # vs.last.id
  /\ FindsItself

\* C14: add is insert-or-replace: with an existing id it replaces the
\* vector and the metadata of that record and leaves the size unchanged,
\* with a new id it increases the size by exactly one; every other record
\* is unchanged.
C14_AddInsertsOrReplaces ==
  [][(vs'.last.op = "add" /\ vs'.last.result.status = "ok")
       => /\ vs'.last.id \in DOMAIN Stored(vs')
          /\ Stored(vs')[vs'.last.id] =
               [vector |-> vs'.last.vector, metadata |-> vs'.last.metadata]
          /\ Size(vs') = IF vs'.last.id \in DOMAIN Stored(vs) THEN Size(vs)
                         ELSE Size(vs) + 1
          /\ OthersUnchanged(vs, vs', vs'.last.id)]_vars

NonIncreasing(hits) ==
  \A i \in 1..(Len(hits) - 1) : ~ScoreGreater(hits[i + 1].score, hits[i].score)

\* C16: search on a collection with no records (never used, cleared, or
\* emptied by remove) returns the empty list and no error, for every query
\* vector and topK; on a collection with records it returns at most topK
\* entries in the order of non-increasing score.
C16_SearchOnEmptyIsEmpty ==
  (vs.kind = "mem" /\ vs.last.op = "search")
    => /\ vs.records = <<>>
            => (vs.last.result.status = "ok" /\ vs.last.result.hits = <<>>)
       /\ (vs.records # <<>> /\ vs.last.result.status = "ok")
            => /\ Len(vs.last.result.hits) <= vs.last.topK
               /\ NonIncreasing(vs.last.result.hits)

(***************************************************************************)
(* Claims about the chunkers, over SpecChunker.                            *)
(***************************************************************************)
LocalDone == ck.pc = "done" /\ ck.mode = "local"

\* C17: every chunk the rule-based chunker produces has non-empty content,
\* for a text of whitespace only and for a text whose first paragraph is
\* oversized included.
C17_LocalChunksNonEmpty ==
  LocalDone => \A i \in 1..Len(ck.result.chunks) : ck.result.chunks[i].content # EmptyString

\* C18: for a text with no blank-line paragraph break and several
\* sentences, the rule-based chunker returns one chunk per sentence, titled
\* 'Chunk 1', 'Chunk 2', ... in order.
C18_OneChunkPerSentence ==
  (LocalDone /\ Len(ck.text) = 1 /\ Len(Match(ck.text)) > 1)
    => /\ Len(ck.result.chunks) = Len(Match(ck.text))
       /\ \A i \in 1..Len(ck.result.chunks) :
            /\ ck.result.chunks[i].title = i
            /\ ck.result.chunks[i].content = <<Match(ck.text)[i]>>

\* C20: the delegated chunker fails and returns no chunks whenever the
\* provider's answer has an empty list of chunks or a chunk whose content is
\* missing or empty.
C20_MalformedResponseFails ==
  (/\ ck.pc = "done"
   /\ ck.mode = "delegated"
   /\ ck.response.kind = "array"
   /\ \/ ck.response.chunks = <<>>
      \/ \E i \in 1..Len(ck.response.chunks) :
           \/ ~ck.response.chunks[i].present
           \/ ck.response.chunks[i].content = EmptyString)
    => (ck.result.status = "error" /\ ck.result.chunks = <<>>)

(***************************************************************************)
(* Claims about the keys of the vector records, over SpecRoutes.           *)
(***************************************************************************)
\* The records of the store that the step wrote.
Written == {r \in Range(vs'.records) : r \notin Range(vs.records)}

\* The record is keyed by the id of the stored chunk that holds its vector.
KeyedByChunk(r) ==
  /\ r.id.kind = "id"
  /\ r.id.n \in DOMAIN chunks'
  /\ chunks'[r.id.n].embedding = r.vector

\* The records an upload for another book wrote are still there, as they
\* were.
OtherBooksRecordsKept ==
  \A r \in Range(vs.records) :
    (r.metadata.bookId # NoId /\ r.metadata.bookId # lastOp'.id) => r \in Range(vs'.records)

\* C19: every vector record written by an upload or an edit is keyed by the
\* id of the stored chunk it belongs to, and an upload for one book replaces
\* or removes no vector record written for another book.
C19_VectorsKeyedByChunkId ==
  [][(lastOp'.op \in {"upload", "edit"} /\ lastOp'.status = 200)
       => /\ \A r \in Written : KeyedByChunk(r)
          /\ lastOp'.op = "upload" => OtherBooksRecordsKept]_vars

\* The paragraphs of the chunks, read in the order of the chunks.
RECURSIVE ParagraphsOf(_)
ParagraphsOf(list) ==
  IF list = <<>> THEN <<>> ELSE Head(list).content \o ParagraphsOf(Tail(list))

NonBlankParagraphs(text) == LET NotBlank(p) == ~IsBlank(p) IN SelectSeq(text, NotBlank)

\* C30: the rule-based chunker loses and duplicates nothing: the paragraphs
\* of the returned chunks, read in chunk order, are the non-blank paragraphs
\* of the text in their order, and chunk i is titled 'Chunk i'.
C30_ChunkerKeepsParagraphs ==
  LocalDone
    => /\ ParagraphsOf(ck.result.chunks) = NonBlankParagraphs(ck.text)
       /\ \A i \in 1..Len(ck.result.chunks) : ck.result.chunks[i].title = i

C30_Witness ==
  /\ LocalDone
  /\ Len(ck.text) = 3
  /\ \E i \in 1..Len(ck.text) : IsBlank(ck.text[i])
  /\ Len(ck.result.chunks) = 2
  /\ ParagraphsOf(ck.result.chunks) = NonBlankParagraphs(ck.text)

\* C27: whenever a collection holds no records (never used, cleared, or
\* emptied by removing every record), add with a vector of any length
\* succeeds and that length becomes the dimension of the collection.
C27_AddToEmptyFixesDimension ==
  [][(vs.kind = "mem" /\ vs.records = <<>> /\ vs'.last.op = "add")
       => /\ vs'.last.result.status = "ok"
          /\ vs'.dimension = Len(vs'.last.vector)
          /\ Len(vs'.records) = 1]_vars

(***************************************************************************)
(* C29.  An upload that names an existing book and is answered 200 creates *)
(* no book record: the books are the same as before with their             *)
(* embeddingType, and every chapter it created is attached to the book     *)
(* named.                                                                  *)
(***************************************************************************)
C29_UploadToBookCreatesNoBook ==
  [][(lastOp'.op = "upload" /\ lastOp'.status = 200 /\ lastOp'.id \in DOMAIN books)
       => /\ books' = books
          /\ \A h \in DOMAIN chapters' \ DOMAIN chapters :
               chapters'[h].bookId = lastOp'.id]_vars

\* C28: cluster called with vectors that do not all have the same length
\* raises an error and returns no clusters.
C28_MixedLengthsRaise ==
  (km.pc \in {"done", "failed"} /\ Mixed(km.vectors))
    => (km.pc = "failed" /\ km.clusters = <<>>)

(***************************************************************************)
(* Claims about the iteration of cluster, over SpecCluster and             *)
(* SpecClusterFair.                                                        *)
(***************************************************************************)
RECURSIVE ProductOfSquares(_)
ProductOfSquares(centroids) ==
  IF centroids = <<>> THEN 1
  ELSE Head(centroids).n * Head(centroids).n * ProductOfSquares(Tail(centroids))

RECURSIVE SumOver(_, _)
SumOver(terms, i) == IF i > Len(terms) THEN 0 ELSE terms[i] + SumOver(terms, i + 1)

\* The total within-cluster squared distance, as the fraction num / den:
\* every point to the centroid of the cluster it is assigned to.
Cost(points, centroids, assignments) ==
  LET den == ProductOfSquares(centroids)
      Term(i) == LET c == centroids[assignments[i] + 1]
                 IN ScaledSquareDistance(points[i], c) * (den \div (c.n * c.n))
  IN [num |-> SumOver([i \in 1..Len(points) |-> Term(i)], 1), den |-> den]

NotMore(a, b) == a.num * b.den <= b.num * a.den

\* C25: in a round of cluster the total within-cluster squared distance
\* does not increase when the points are re-assigned to their nearest
\* centroid, nor when the centroids are recomputed as the means of their
\* points.
C25_CostNeverIncreases ==
  [][/\ km.pc = "loop"
          => NotMore(Cost(km.vectors, km.centroids, km'.assignments),
                     Cost(km.vectors, km.centroids, km.assignments))
     /\ km.pc = "update"
          => NotMore(Cost(km.vectors, km'.centroids, km.assignments),
                     Cost(km.vectors, km.centroids, km.assignments))]_vars

C25_Witness ==
  /\ km.pc = "done"
  /\ km.iteration >= 2
  /\ Len(km.clusters) >= 2
  /\ \E c \in 1..Len(km.centroids) : km.centroids[c].n >= 2

\* The assignment is to the nearest centroid, and to the one of the lowest
\* index among the nearest.
NearestLowest(point, centroids, k, a) ==
  /\ \A j \in 0..(k - 1) : ~Nearer(point, centroids[j + 1], centroids[a + 1])
  /\ \A j \in 0..(a - 1) : Nearer(point, centroids[a + 1], centroids[j + 1])

\* C26, a round: every point is assigned to the nearest centroid, the one
\* of the lowest index among equals; the loop is left at the first round
\* whose assignments are those of the round before, and goes on otherwise
\* unless it was round 100; the centroid of a cluster that got no point
\* stays as it was.
RoundAsSpecified ==
  /\ (km.pc = "loop" /\ km' # km)
       => /\ km.k >= 1 => \A i \in 1..Len(km.vectors) :
                            NearestLowest(km.vectors[i], km.centroids, km.k,
                                          km'.assignments[i])
          /\ km'.pc = IF km'.assignments = km.prevAssignments THEN "result" ELSE "update"
          /\ km'.centroids = km.centroids
          /\ km'.iteration = km.iteration
  /\ km.pc = "update"
       => /\ km'.iteration = km.iteration + 1
          /\ km'.pc = IF km'.iteration < maxIterations THEN "loop" ELSE "result"
          /\ km'.assignments = km.assignments
          /\ \A j \in 0..(Len(km.centroids) - 1) :
               Members(km.assignments, j) = {} => km'.centroids[j + 1] = km.centroids[j + 1]

EmptyMemStorage ==
  [books |-> <<>>, chapters |-> <<>>, sections |-> <<>>, chunks |-> <<>>,
   vectors |-> [c \in Collections |-> <<>>], nextId |-> 1]

\* The stores an upload may find: nothing yet, or the book of an earlier
\* upload of one file of two chunks.
StoresBeforeUpload ==
  {EmptyMemStorage}
    \cup {Upload(EmptyMemStorage, <<<<"a", "b">>>>, NoId, "local", {},
                 <<<<<<"a">>, <<"b">>>>>>, NoFailure).st}

StoreBecomes(st) ==
  /\ books' = st.books
  /\ chapters' = st.chapters
  /\ sections' = st.sections
  /\ chunks' = st.chunks
  /\ vectors' = st.vectors
  /\ nextId' = st.nextId

UploadOnly == UNCHANGED <<lastOp, requests, failures, km, vs, ck, rq, objs>>

InitUpload ==
  /\ \E st \in StoresBeforeUpload :
       /\ books = st.books
       /\ chapters = st.chapters
       /\ sections = st.sections
       /\ chunks = st.chunks
       /\ vectors = st.vectors
       /\ nextId = st.nextId
  /\ lastOp = Op("init", NoId, "", "", 200)
  /\ requests = 0
  /\ failures = 0
  /\ km = NoRun
  /\ vs = NoStore
  /\ ck = NoChunking
  /\ up = NoUpload
  /\ rq = NoCalls
  /\ objs = NoObjects

UploadFailed == [up EXCEPT !.pc = "failed", !.failure = TRUE, !.status = 500]

\* The request is read and checked.
BeginUpload ==
  /\ up.pc = "idle"
  /\ \E files \in FileLists, bookId \in {NoId} \cup DOMAIN books, type \in EmbeddingTypes :
       /\ bookId # NoId => type = "openai"
       /\ up' = IF files = <<>> \/ \A i \in DOMAIN files : IsBlankText(files[i])
                THEN [up EXCEPT !.pc = "answered", !.files = files, !.bookId = bookId,
                                !.status = 400]
                ELSE [up EXCEPT !.pc = IF bookId = NoId THEN "title" ELSE "clean",
                                !.files = files, !.bookId = bookId,
                                !.type = TypeToUse(Store, bookId, type)]
  /\ UNCHANGED <<books, chapters, sections, chunks, vectors, nextId>>
  /\ UploadOnly

\* The existing book's vectors are removed side by side, then its chapters.
\* A removal that fails is answered with false and the handler goes on; the
\* handler fails when the collection cannot be had.
RemoveOld ==
  /\ up.pc = "clean"
  /\ \E stuck \in SUBSET getAllChunksByBookId(Store, up.bookId), throws \in BOOLEAN :
       /\ throws => stuck # {}
       /\ IF throws
          THEN /\ StoreBecomes(RemoveOldVectors(Store, up.bookId, stuck))
               /\ up' = UploadFailed
          ELSE /\ StoreBecomes(DeleteOldStructure(Store, up.bookId, stuck))
               /\ up' = [up EXCEPT !.pc = "title", !.failure = stuck # {}]
  /\ UploadOnly

\* The first file is chunked for the book's title.
ChunkFirst ==
  /\ up.pc = "title"
  /\ \E throws \in BOOLEAN :
       /\ throws => up.type = "openai"
       /\ up' = IF throws THEN UploadFailed
                ELSE [up EXCEPT !.pc = "book", !.failure = FALSE]
  /\ UNCHANGED <<books, chapters, sections, chunks, vectors, nextId>>
  /\ UploadOnly

CreateBook ==
  /\ up.pc = "book"
  /\ StoreBecomes(createBook(Store, up.type))
  /\ up' = [up EXCEPT !.pc = "graphinit", !.book = nextId]
  /\ UploadOnly

GraphInit ==
  /\ up.pc = "graphinit"
  /\ \E throws \in BOOLEAN :
       up' = IF throws THEN UploadFailed ELSE [up EXCEPT !.pc = "chapter", !.file = 1]
  /\ UNCHANGED <<books, chapters, sections, chunks, vectors, nextId>>
  /\ UploadOnly

\* Steps 1 and 2 of the loop over the files.
CreateChapterAndSection ==
  /\ up.pc = "chapter"
  /\ LET withChapter == createChapter(Store, up.book, up.file - 1)
     IN /\ StoreBecomes(createSection(withChapter, nextId, 0))
        /\ up' = [up EXCEPT !.pc = "chunk", !.section = withChapter.nextId]
  /\ UploadOnly

\* After file i: the next file, or the answer.
AfterFile(i) == IF i < Len(up.files) THEN "chapter" ELSE "respond"

\* Step 3: the file is chunked; a file without chunks is passed over.
ChunkFile ==
  /\ up.pc = "chunk"
  /\ \/ /\ up.type = "openai"
        /\ up' = UploadFailed
     \/ \E chunked \in ChunkingResults(up.files, up.type) :
          LET contents == chunked[up.file]
          IN up' = IF contents = <<>>
                   THEN [up EXCEPT !.pc = AfterFile(up.file),
                                   !.file = IF up.file < Len(up.files) THEN @ + 1 ELSE @,
                                   !.embedded = @ \cup {up.file}]
                   ELSE [up EXCEPT !.pc = "embed", !.contents = contents]
  /\ UNCHANGED <<books, chapters, sections, chunks, vectors, nextId>>
  /\ UploadOnly

\* Step 4: the embeddings of the file's chunks are asked for.
EmbedFile ==
  /\ up.pc = "embed"
  /\ \E throws \in BOOLEAN :
       up' = IF throws THEN UploadFailed
             ELSE [up EXCEPT !.pc = "store", !.chunk = 1, !.embedded = @ \cup {up.file}]
  /\ UNCHANGED <<books, chapters, sections, chunks, vectors, nextId>>
  /\ UploadOnly

\* Step 5, for one chunk: createChunk, then vectorStore.add.
StoreChunk ==
  /\ up.pc = "store"
  /\ LET embedding == Embed(up.type, up.contents[up.chunk])
         created == createChunk(Store, up.section, up.contents[up.chunk], embedding,
                                up.chunk - 1, 1)
     IN \/ /\ StoreBecomes(created)
           /\ up' = UploadFailed
        \/ /\ StoreBecomes(vectorStoreAdd(created, CollectionName(up.type), nextId, embedding))
           /\ up' = [up EXCEPT !.pc = IF up.chunk < Len(up.contents) THEN "store" ELSE "link",
                               !.chunk = IF up.chunk < Len(up.contents) THEN @ + 1 ELSE @]
  /\ UploadOnly

\* Steps 6 and 7: the chunks are linked and added to the graph database.
LinkAndGraph ==
  /\ up.pc = "link"
  /\ \E throws \in BOOLEAN :
       up' = IF throws THEN UploadFailed
             ELSE [up EXCEPT !.pc = AfterFile(up.file),
                             !.file = IF up.file < Len(up.files) THEN @ + 1 ELSE @]
  /\ UNCHANGED <<books, chapters, sections, chunks, vectors, nextId>>
  /\ UploadOnly

\* The book's structure is answered.
Respond ==
  /\ up.pc = "respond"
  /\ up' = [up EXCEPT !.pc = "done", !.status = 200]
  /\ UNCHANGED <<books, chapters, sections, chunks, vectors, nextId>>
  /\ UploadOnly

NextUpload ==
  \/ BeginUpload
  \/ RemoveOld
  \/ ChunkFirst
  \/ CreateBook
  \/ GraphInit
  \/ CreateChapterAndSection
  \/ ChunkFile
  \/ EmbedFile
  \/ StoreChunk
  \/ LinkAndGraph
  \/ Respond

SpecUpload == InitUpload /\ [][NextUpload]_vars

\* The stage of the upload's state machine the handler is in: chunking,
\* embedding, persisting (any call that writes to the stores, and the
\* graph database), done.
StageRank(pc) ==
  CASE pc \in {"idle", "clean"} -> 0
    [] pc \in {"title", "chunk"} -> 1
    [] pc = "embed" -> 2
    [] pc \in {"book", "graphinit", "chapter", "store", "link", "respond"} -> 4
    [] OTHER -> 5

\* C21: in every step of an upload, the stores are written only when all
\* the files of the upload are chunked and embedded; the handler never goes
\* back to an earlier stage of Chunking, Embedding, Persisting, Done; and a
\* step in which an external call failed ends in Failed.
C21_UploadStagesInOrder ==
  [][/\ <<books, chapters, sections, chunks, vectors>>' # <<books, chapters, sections, chunks, vectors>>
          => up.embedded = DOMAIN up.files
     /\ up'.pc # "failed" => StageRank(up'.pc) >= StageRank(up.pc)
     /\ up'.failure => up'.pc = "failed"]_vars

(***************************************************************************)
(* Requests in flight.  Two clients send one request each, PATCH, DELETE   *)
(* or reorder, for chunks of one section; a handler runs from one await to *)
(* the next and the other handler may run in between.  rq[c] tells the     *)
(* request of client c, where its handler is (pc), and the handler's local *)
(* variables.  No external call fails here.                                *)
(*                                                                         *)
(* MemStorage keeps chunk objects: getChunk and getChunksBySectionId hand  *)
(* out the stored objects themselves, swapChunkOrder assigns to their      *)
(* order fields, and updateChunk stores a copy in the place of the object. *)
(* objs.heap holds every chunk object made so far and objs.map the object  *)
(* stored under each id; chunks is what the map shows.                     *)
(***************************************************************************)
Callers == {1, 2}

NoRef == 0

NoCall ==
  [op |-> "none", id |-> NoId, direction |-> "", content |-> EmptyString, pc |-> "idle",
   chunk |-> NoRef, siblings |-> <<>>, other |-> NoRef, book |-> NoId, status |-> 0]

\* The contents the concurrent edits carry: the stored one and two new.
ConcurrentContents == {<<"a">>, <<"e">>, <<"f">>}

\* The store the requests find: a book of the local embedding type with
\* one chapter, one section and its chunks, as an upload leaves them.
SiblingIds == 4..(3 + MaxSiblings)

StoreBeforeCalls ==
  [books |-> 1 :> [embeddingType |-> "local"],
   chapters |-> 2 :> [bookId |-> 1, order |-> 0],
   sections |-> 3 :> [chapterId |-> 2, order |-> 0],
   chunks |-> [id \in SiblingIds |->
                 [sectionId |-> 3, content |-> <<"a">>, embedding |-> Embed("local", <<"a">>),
                  order |-> id - 4, isEmbedded |-> 1]],
   vectors |-> [c \in Collections |->
                  IF c = CollectionName("local")
                  THEN [id \in SiblingIds |-> Embed("local", <<"a">>)]
                  ELSE <<>>],
   nextId |-> 4 + MaxSiblings]

\* The chunk record an object shows.
ObjectRecord(o) ==
  [sectionId |-> o.sectionId, content |-> o.content, embedding |-> o.embedding,
   order |-> o.order, isEmbedded |-> o.isEmbedded]

\* this.chunks as a map from id to record.
ChunksOf(ob) == [id \in DOMAIN ob.map |-> ObjectRecord(ob.heap[ob.map[id]])]

ObjectsBeforeCalls ==
  [map |-> [id \in SiblingIds |-> id - 3],
   heap |-> [r \in 1..MaxSiblings |->
               [id |-> r + 3] @@ StoreBeforeCalls.chunks[r + 3]]]

\* this.chunks.get(id)
getChunk(ob, id) == IF id \in DOMAIN ob.map THEN ob.map[id] ELSE NoRef

\* The section's chunk objects, sorted by order.
SiblingObjects(ob, sectionId) ==
  LET ids == getChunksBySectionId([chunks |-> ChunksOf(ob)], sectionId)
  IN [i \in 1..Len(ids) |-> ob.map[ids[i]]]

\* updateChunk on a stored id: a copy of the stored object with the updates
\* takes its place.
StoreCopy(ob, id, updates) ==
  [map |-> [ob.map EXCEPT ![id] = Len(ob.heap) + 1],
   heap |-> Append(ob.heap, updates @@ ob.heap[ob.map[id]])]

\* this.chunks.delete(id)
MapDelete(ob, id) ==
  [ob EXCEPT !.map = [c \in DOMAIN ob.map \ {id} |-> ob.map[c]]]

\* siblings.findIndex(c => c.id === chunkId), counted from 1; 0 for -1.
FindIndex(ob, siblings, chunkId) ==
  IF \E i \in 1..Len(siblings) : ob.heap[siblings[i]].id = chunkId
  THEN CHOOSE i \in 1..Len(siblings) :
         /\ ob.heap[siblings[i]].id = chunkId
         /\ \A j \in 1..(i - 1) : ob.heap[siblings[j]].id # chunkId
  ELSE 0

InitConcurrent ==
  /\ books = StoreBeforeCalls.books
  /\ chapters = StoreBeforeCalls.chapters
  /\ sections = StoreBeforeCalls.sections
  /\ chunks = StoreBeforeCalls.chunks
  /\ vectors = StoreBeforeCalls.vectors
  /\ nextId = StoreBeforeCalls.nextId
  /\ lastOp = Op("init", NoId, "", "", 200)
  /\ requests = 0
  /\ failures = 0
  /\ km = NoRun
  /\ vs = NoStore
  /\ ck = NoChunking
  /\ up = NoUpload
  /\ rq = [c \in Callers |-> NoCall]
  /\ objs = ObjectsBeforeCalls

\* What a step of a handler leaves alone whatever it does.
CallsOnly ==
  UNCHANGED <<books, chapters, sections, nextId, lastOp, requests, failures, km, vs, ck, up>>

ObjectsBecome(ob) ==
  /\ objs' = ob
  /\ chunks' = ChunksOf(ob)

Answered(call, status) == [call EXCEPT !.pc = "done", !.status = status]

At(c, op, pc) == rq[c].op = op /\ rq[c].pc = pc

\* ---- POST /api/chunks/:id/reorder ----
\* The handler calls swapChunkOrder, which calls getChunk.
ReorderGetChunk ==
  \E c \in Callers :
    /\ rq[c].pc = "idle"
    /\ \E id \in SiblingIds, direction \in {"up", "down"} :
         rq' = [rq EXCEPT ![c] = [NoCall EXCEPT !.op = "reorder", !.id = id,
                                                !.direction = direction, !.pc = "siblings",
                                                !.chunk = getChunk(objs, id)]]
    /\ UNCHANGED <<chunks, vectors, objs>>
    /\ CallsOnly

\* if (!chunk) throw; getChunksBySectionId(chunk.sectionId)
ReorderGetSiblings ==
  \E c \in Callers :
    /\ At(c, "reorder", "siblings")
    /\ rq' = [rq EXCEPT ![c] =
                IF rq[c].chunk = NoRef THEN Answered(rq[c], 500)
                ELSE [rq[c] EXCEPT !.pc = "swap",
                        !.siblings = SiblingObjects(objs, objs.heap[rq[c].chunk].sectionId)]]
    /\ UNCHANGED <<chunks, vectors, objs>>
    /\ CallsOnly

\* The index is looked up, the order fields of the two objects are
\* exchanged, and updateChunk is called for the moved chunk.
ReorderSwap ==
  \E c \in Callers :
    /\ At(c, "reorder", "swap")
    /\ LET currentIndex == FindIndex(objs, rq[c].siblings, rq[c].id)
           swapIndex == SwapIndex(currentIndex, rq[c].direction)
           chunk == rq[c].chunk
           otherChunk == rq[c].siblings[swapIndex]
           swapped == [objs EXCEPT !.heap = [objs.heap EXCEPT
                                               ![chunk].order = objs.heap[otherChunk].order,
                                               ![otherChunk].order = objs.heap[chunk].order]]
       IN IF currentIndex = 0
          THEN /\ rq' = [rq EXCEPT ![c] = Answered(rq[c], 500)]
               /\ UNCHANGED <<chunks, objs>>
          ELSE IF swapIndex < 1 \/ swapIndex > Len(rq[c].siblings)
          THEN /\ rq' = [rq EXCEPT ![c] = Answered(rq[c], 200)]
               /\ UNCHANGED <<chunks, objs>>
          ELSE IF rq[c].id \notin DOMAIN objs.map
          THEN /\ rq' = [rq EXCEPT ![c] = Answered(rq[c], 500)]
               /\ ObjectsBecome(swapped)
          ELSE /\ rq' = [rq EXCEPT ![c] = [rq[c] EXCEPT !.pc = "second", !.other = otherChunk]]
               /\ ObjectsBecome(StoreCopy(swapped, rq[c].id,
                                          [order |-> swapped.heap[chunk].order]))
    /\ UNCHANGED vectors
    /\ CallsOnly

\* updateChunk is called for the other chunk, and the request is answered.
ReorderSecond ==
  \E c \in Callers :
    /\ At(c, "reorder", "second")
    /\ LET other == objs.heap[rq[c].other]
       IN IF other.id \notin DOMAIN objs.map
          THEN /\ rq' = [rq EXCEPT ![c] = Answered(rq[c], 500)]
               /\ UNCHANGED <<chunks, objs>>
          ELSE /\ rq' = [rq EXCEPT ![c] = Answered(rq[c], 200)]
               /\ ObjectsBecome(StoreCopy(objs, other.id, [order |-> other.order]))
    /\ UNCHANGED vectors
    /\ CallsOnly

\* ---- DELETE /api/chunks/:id ----
DeleteGetChunk ==
  \E c \in Callers :
    /\ rq[c].pc = "idle"
    /\ \E id \in SiblingIds :
         rq' = [rq EXCEPT ![c] = [NoCall EXCEPT !.op = "delete", !.id = id, !.pc = "book",
                                                !.chunk = getChunk(objs, id)]]
    /\ UNCHANGED <<chunks, vectors, objs>>
    /\ CallsOnly

\* if (!chunk) 404; getBookFromChunk
DeleteGetBook ==
  \E c \in Callers :
    /\ At(c, "delete", "book")
    /\ rq' = [rq EXCEPT ![c] =
                IF rq[c].chunk = NoRef THEN Answered(rq[c], 404)
                ELSE [rq[c] EXCEPT !.pc = "remove", !.book = getBookFromChunk(Store, rq[c].id)]]
    /\ UNCHANGED <<chunks, vectors, objs>>
    /\ CallsOnly

\* if (book) vectorStore.remove; without a book deleteChunk follows at once.
DeleteRemoveVector ==
  \E c \in Callers :
    /\ At(c, "delete", "remove")
    /\ IF rq[c].book = NoId
       THEN /\ rq' = [rq EXCEPT ![c] = Answered(rq[c], 200)]
            /\ ObjectsBecome(MapDelete(objs, rq[c].id))
            /\ UNCHANGED vectors
       ELSE /\ rq' = [rq EXCEPT ![c] = [rq[c] EXCEPT !.pc = "record"]]
            /\ vectors' = vectorStoreRemove(Store,
                                            CollectionName(books[rq[c].book].embeddingType),
                                            rq[c].id).vectors
            /\ UNCHANGED <<chunks, objs>>
    /\ CallsOnly

\* storage.deleteChunk, and the request is answered.
DeleteRecord ==
  \E c \in Callers :
    /\ At(c, "delete", "record")
    /\ rq' = [rq EXCEPT ![c] = Answered(rq[c], 200)]
    /\ ObjectsBecome(MapDelete(objs, rq[c].id))
    /\ UNCHANGED vectors
    /\ CallsOnly

\* ---- PATCH /api/chunks/:id ----
EditGetChunk ==
  \E c \in Callers :
    /\ rq[c].pc = "idle"
    /\ \E id \in SiblingIds, content \in ConcurrentContents :
         rq' = [rq EXCEPT ![c] = [NoCall EXCEPT !.op = "edit", !.id = id, !.content = content,
                                                !.pc = "check", !.chunk = getChunk(objs, id)]]
    /\ UNCHANGED <<chunks, vectors, objs>>
    /\ CallsOnly

\* if (!chunk) 404; with a changed content getBookFromChunk, otherwise
\* updateChunk and the answer.
EditCheck ==
  \E c \in Callers :
    /\ At(c, "edit", "check")
    /\ IF rq[c].chunk = NoRef
       THEN /\ rq' = [rq EXCEPT ![c] = Answered(rq[c], 404)]
            /\ UNCHANGED <<chunks, objs>>
       ELSE IF ContentChanged(objs.heap[rq[c].chunk], rq[c].content)
       THEN /\ rq' = [rq EXCEPT ![c] = [rq[c] EXCEPT !.pc = "embed",
                                          !.book = getBookFromChunk(Store, rq[c].id)]]
            /\ UNCHANGED <<chunks, objs>>
       ELSE IF rq[c].id \notin DOMAIN objs.map
       THEN /\ rq' = [rq EXCEPT ![c] = Answered(rq[c], 500)]
            /\ UNCHANGED <<chunks, objs>>
       ELSE /\ rq' = [rq EXCEPT ![c] = Answered(rq[c], 200)]
            /\ ObjectsBecome(StoreCopy(objs, rq[c].id, [content |-> rq[c].content]))
    /\ UNCHANGED vectors
    /\ CallsOnly

\* if (!book) 404; the embedding provider is asked.
EditEmbed ==
  \E c \in Callers :
    /\ At(c, "edit", "embed")
    /\ rq' = [rq EXCEPT ![c] = IF rq[c].book = NoId THEN Answered(rq[c], 404)
                               ELSE [rq[c] EXCEPT !.pc = "add"]]
    /\ UNCHANGED <<chunks, vectors, objs>>
    /\ CallsOnly

\* The embedding is there; vectorStore.add under the chunk's id.
EditAdd ==
  \E c \in Callers :
    /\ At(c, "edit", "add")
    /\ LET type == books[rq[c].book].embeddingType
       IN vectors' = vectorStoreAdd(Store, CollectionName(type), rq[c].id,
                                    Embed(type, rq[c].content)).vectors
    /\ rq' = [rq EXCEPT ![c] = [rq[c] EXCEPT !.pc = "update"]]
    /\ UNCHANGED <<chunks, objs>>
    /\ CallsOnly

\* storage.updateChunk with the content and the new embedding, and the
\* answer; updateChunk throws when the id is not stored.
EditUpdate ==
  \E c \in Callers :
    /\ At(c, "edit", "update")
    /\ IF rq[c].id \notin DOMAIN objs.map
       THEN /\ rq' = [rq EXCEPT ![c] = Answered(rq[c], 500)]
            /\ UNCHANGED <<chunks, objs>>
       ELSE /\ rq' = [rq EXCEPT ![c] = Answered(rq[c], 200)]
            /\ ObjectsBecome(StoreCopy(objs, rq[c].id,
                                       [content |-> rq[c].content,
                                        embedding |-> Embed(books[rq[c].book].embeddingType,
                                                            rq[c].content),
                                        isEmbedded |-> 1]))
    /\ UNCHANGED vectors
    /\ CallsOnly

NextConcurrent ==
  \/ ReorderGetChunk
  \/ ReorderGetSiblings
  \/ ReorderSwap
  \/ ReorderSecond
  \/ DeleteGetChunk
  \/ DeleteGetBook
  \/ DeleteRemoveVector
  \/ DeleteRecord
  \/ EditGetChunk
  \/ EditCheck
  \/ EditEmbed
  \/ EditAdd
  \/ EditUpdate

SpecConcurrent == InitConcurrent /\ [][NextConcurrent]_vars

\* The store after the request of a call is served alone, from its first
\* step to its answer.
ServedAlone(st, call) ==
  CASE call.op = "reorder" -> ReorderChunk(st, call.id, call.direction).st
    [] call.op = "delete" -> DeleteChunk(st, call.id, "removed").st
    [] call.op = "edit" -> EditChunk(st, call.id, call.content, "none").st
    [] OTHER -> st

\* The store after the two requests are served one after the other, the
\* request of client first before the other one.
ServedInTurn(first) ==
  LET second == CHOOSE c \in Callers : c # first
  IN ServedAlone(ServedAlone(StoreBeforeCalls, rq[first]), rq[second])

OrdersIn(ch) == [id \in DOMAIN ch |-> ch[id].order]

BothAnswered == \A c \in Callers : rq[c].pc = "done"

\* C22: when two reorder requests, or a reorder and a delete request, for
\* chunks of one section were served side by side and both are answered,
\* the order values of the section's chunks are those that serving the two
\* one after the other leaves, in one turn or the other, and no two chunks
\* have the same order.
C22_ReordersSerialized ==
  (/\ BothAnswered
   /\ \A c \in Callers : rq[c].op \in {"reorder", "delete"}
   /\ \E c \in Callers : rq[c].op = "reorder")
    => /\ \E first \in Callers : OrdersIn(chunks) = OrdersIn(ServedInTurn(first).chunks)
       /\ \A a, b \in DOMAIN chunks : a # b => chunks[a].order # chunks[b].order

\* The collection of the book the requests work on.
CallsCollection == CollectionName(StoreBeforeCalls.books[1].embeddingType)

\* C23: when an edit and a delete request for one chunk were served side
\* by side and both are answered, the vector store holds a record under
\* the chunk's id only if the chunk is still stored.
C23_NoVectorWithoutChunk ==
  \A c, d \in Callers :
    (/\ BothAnswered
     /\ rq[c].op = "edit"
     /\ rq[d].op = "delete"
     /\ rq[c].id = rq[d].id)
      => (rq[c].id \in DOMAIN vectors[CallsCollection] => rq[c].id \in DOMAIN chunks)

\* C24: when two edit requests with different new contents for one chunk
\* were served side by side and both are answered, the vector stored under
\* the chunk's id is the embedding on the chunk record, and it was made
\* from the content on the chunk record.
C24_EditsLeaveOneEmbedding ==
  (/\ BothAnswered
   /\ \A c \in Callers : rq[c].op = "edit" /\ rq[c].content # <<"a">>
   /\ rq[1].id = rq[2].id
   /\ rq[1].content # rq[2].content)
    => LET id == rq[1].id
       IN /\ id \in DOMAIN chunks
          /\ id \in DOMAIN vectors[CallsCollection]
          /\ vectors[CallsCollection][id] = chunks[id].embedding
          /\ chunks[id].embedding.of = chunks[id].content

====
